---- MODULE Spec2Model ----
(***************************************************************************)
(* A model of MinecraftToLegoConverter (src/minecraft_to_lego_converter.py)*)
(* : the varint decoder, the two schematic loaders, the block classifier,  *)
(* the identity and greedy conversions and convert_file.                   *)
(*                                                                         *)
(* Strings that the code takes apart (block names) are sequences of        *)
(* tokens, so that stripping the namespace, cutting the state suffix and   *)
(* the substring tests are computed, not looked up.  Output coordinates    *)
(* are integers in LDraw units: every product the code forms is a multiple *)
(* of 10, so the ".2f" formatting loses nothing.                           *)
(***************************************************************************)
EXTENDS Integers, Sequences, FiniteSets, TLC

VARIABLES
    vm,          \* the frame of _decode_varint_array: data, expected, i, result, value, shift, pc
    file,        \* the input file: its extension and the NBT tree nbtlib.load returns
    schematic,   \* what load_schematic returned (format "none": None / not loaded)
    ldraw,       \* what convert_to_ldraw returned, with the flags of the call
    saved,       \* the output file on disk, as save_ldraw_file left it
    ret,         \* what convert_file returned: "none" before any call, "True", "False"
    counters     \* the attributes the converter sets on itself while converting:
                 \* _stair_debug_count, _slab_debug_count and _special_counts

vars == <<vm, file, schematic, ldraw, saved, ret, counters>>

----------------------------------------------------------------------------
(* Bounds of the model *)

\* the counts of _special_counts stay within MaxCount when one converter
\* converts grid after grid
MaxCount == 2
\* longest sequence of values that is encoded into a varint stream
MaxValues == 2
\* longest byte array (Blocks, Data, BlockData) of an input file
MaxBytes == 4
\* largest number of cells (width*height*length) of a grid drawn directly
MaxCells == 4
\* the rows of identical or two-coloured voxels are up to MaxRow wide
MaxRow == 8
\* the data values of the legacy voxels run from 0 to MaxData
MaxData == 17

----------------------------------------------------------------------------
(* Integer helpers: Python's &, |, << on non-negative integers *)

RECURSIVE BitAnd(_, _)
BitAnd(a, b) ==
    IF a = 0 \/ b = 0 THEN 0
    ELSE (IF a % 2 = 1 /\ b % 2 = 1 THEN 1 ELSE 0) + 2 * BitAnd(a \div 2, b \div 2)

RECURSIVE BitOr(_, _)
BitOr(a, b) ==
    IF a = 0 THEN b
    ELSE IF b = 0 THEN a
    ELSE (IF a % 2 = 1 \/ b % 2 = 1 THEN 1 ELSE 0) + 2 * BitOr(a \div 2, b \div 2)

ShiftLeft(a, n) == a * (2 ^ n)

\* data[i] if data[i] >= 0 else data[i] + 256
ToUnsigned(b) == IF b >= 0 THEN b ELSE b + 256

\* the bytes of a sequence, each as data[i] if data[i] >= 0 else data[i] + 256
UnsignedBytes(s) == [k \in 1..Len(s) |-> ToUnsigned(s[k])]

Prefixes(s) == { SubSeq(s, 1, n) : n \in 0..Len(s) }

RECURSIVE SeqsUpTo(_, _)
SeqsUpTo(S, n) ==
    IF n = 0 THEN { <<>> }
    ELSE LET shorter == SeqsUpTo(S, n - 1)
         IN  shorter \cup { Append(s, v) : s \in { t \in shorter : Len(t) = n - 1 }, v \in S }

----------------------------------------------------------------------------
(* _decode_varint_array, one step per loop iteration *)

VarintInit(data, expected) ==
    [data |-> data, expected |-> expected, i |-> 0, result |-> <<>>,
     value |-> 0, shift |-> 0, pc |-> "outer"]

\* the outer loop, were the count of values left out of its test
VarintOuterUncounted(m) ==
    IF m.i < Len(m.data)
    THEN [m EXCEPT !.value = 0, !.shift = 0, !.pc = "inner"]
    ELSE [m EXCEPT !.pc = "done"]

\* the test of the outer while loop, and the reset of value and shift
VarintOuter(m) ==
    IF m.i < Len(m.data) /\ Len(m.result) < m.expected
    THEN [m EXCEPT !.value = 0, !.shift = 0, !.pc = "inner"]
    ELSE [m EXCEPT !.pc = "done"]

\* the inner loop, were the shift advanced by a whole byte
VarintInnerShift8(m) ==
    IF m.i >= Len(m.data)
    THEN [m EXCEPT !.result = Append(@, m.value), !.pc = "outer"]
    ELSE LET byte  == ToUnsigned(m.data[m.i + 1])
             value == BitOr(m.value, ShiftLeft(BitAnd(byte, 127), m.shift))
         IN  IF BitAnd(byte, 128) = 0
             THEN [m EXCEPT !.i = @ + 1, !.value = value,
                            !.result = Append(@, value), !.pc = "outer"]
             ELSE [m EXCEPT !.i = @ + 1, !.value = value, !.shift = @ + 8]

\* one pass of the inner "while True", with the append that follows its break
VarintInner(m) ==
    IF m.i >= Len(m.data)
    THEN [m EXCEPT !.result = Append(@, m.value), !.pc = "outer"]
    ELSE LET byte  == ToUnsigned(m.data[m.i + 1])
             value == BitOr(m.value, ShiftLeft(BitAnd(byte, 127), m.shift))
         IN  IF BitAnd(byte, 128) = 0
             THEN [m EXCEPT !.i = @ + 1, !.value = value,
                            !.result = Append(@, value), !.pc = "outer"]
             ELSE [m EXCEPT !.i = @ + 1, !.value = value, !.shift = @ + 7]

VarintStep(m) == IF m.pc = "outer" THEN VarintOuter(m) ELSE VarintInner(m)

RECURSIVE VarintRun(_)
VarintRun(m) == IF m.pc = "done" THEN m ELSE VarintRun(VarintStep(m))

DecodeVarintArray(data, expected) == VarintRun(VarintInit(data, expected)).result

----------------------------------------------------------------------------
(* Block names.  A name is the sequence of its tokens: the namespace       *)
(* "minecraft:", the words of the base name and the "_" between them, and   *)
(* the punctuation "[", "=", ",", "]" of the state suffix.                  *)

\* str.replace(t, ""): every occurrence of the token is removed
RemoveToken(s, t) == SelectSeq(s, LAMBDA c : c # t)

\* t in s
HasToken(s, t) == \E k \in 1..Len(s) : s[k] = t

\* the position of the first t in s (0: none)
IndexOf(s, t) ==
    IF HasToken(s, t)
    THEN CHOOSE k \in 1..Len(s) : s[k] = t /\ \A j \in 1..(k - 1) : s[j] # t
    ELSE 0

\* s.split(sep)
RECURSIVE Split(_, _)
Split(s, sep) ==
    LET k == IndexOf(s, sep)
    IN  IF k = 0 THEN << s >>
        ELSE << SubSeq(s, 1, k - 1) >> \o Split(SubSeq(s, k + 1, Len(s)), sep)

\* s.split(sep, 1), for an s that holds sep
Split1(s, sep) ==
    LET k == IndexOf(s, sep)
    IN  << SubSeq(s, 1, k - 1), SubSeq(s, k + 1, Len(s)) >>

\* s.rstrip(t)
RECURSIVE RStrip(_, _)
RStrip(s, t) ==
    IF Len(s) > 0 /\ s[Len(s)] = t THEN RStrip(SubSeq(s, 1, Len(s) - 1), t) ELSE s

\* the words in which the substring occurs, among the words of the names used here
WordsHolding(sub) ==
    CASE sub = "stairs" -> {"stairs"}
      [] sub = "stair"  -> {"stair", "stairs"}
      [] sub = "slab"   -> {"slab", "slabs"}
      [] sub = "carpet" -> {"carpet"}

\* sub in base_name
HasSubstring(base, sub) == \E k \in 1..Len(base) : base[k] \in WordsHolding(sub)

\* if "[" in name: name = name.split("[")[0]
StripState(name) == IF HasToken(name, "[") THEN Split(name, "[")[1] ELSE name

\* name = block_name.replace("minecraft:", ""); if "[" in name: name = name.split("[")[0]
BaseName(block_name) == StripState(RemoveToken(block_name, "minecraft:"))

\* dict.get on the (key, value) pairs in the order they were assigned
PropsGet(props, key, default) ==
    IF \E k \in 1..Len(props) : props[k][1] = key
    THEN props[CHOOSE k \in 1..Len(props) :
                   props[k][1] = key /\ \A j \in (k + 1)..Len(props) : props[j][1] # key][2]
    ELSE default

\* the dictionary of the "key=value" items
PropsOf(items) == [k \in 1..Len(items) |-> Split1(items[k], "=")]

\* the branch of _parse_block_state for a name with "[": parts = name.split("[")
ParseParts(parts) ==
    [base  |-> parts[1],
     props |-> PropsOf(SelectSeq(Split(RStrip(parts[2], "]"), ","),
                                 LAMBDA prop : HasToken(prop, "=")))]

\* _parse_block_state past the removal of the namespace
ParseName(name) ==
    IF HasToken(name, "[") THEN ParseParts(Split(name, "["))
    ELSE [base |-> name, props |-> <<>>]

\* _parse_block_state: (base_name, properties)
ParseBlockState(block_name) == ParseName(RemoveToken(block_name, "minecraft:"))

\* name_to_id.get(name, 1)
NameToId(name) ==
    CASE name = <<"air">> -> 0
      [] name = <<"stone">> -> 1
      [] name = <<"grass", "_", "block">> -> 2
      [] name = <<"dirt">> -> 3
      [] name = <<"cobblestone">> -> 4
      [] name = <<"bedrock">> -> 7
      [] name = <<"water">> -> 8
      [] name = <<"lava">> -> 10
      [] name = <<"sand">> -> 12
      [] name = <<"gravel">> -> 13
      [] name = <<"glass">> -> 20
      [] name = <<"bricks">> -> 45
      [] name = <<"tnt">> -> 46
      [] name = <<"obsidian">> -> 49
      [] OTHER -> 1

\* _block_name_to_id
BlockNameToId(block_name) == NameToId(BaseName(block_name))

\* self.skip_blocks (the entries among the names used here)
SkipBlocks ==
    { <<"torch">>, <<"wall", "_", "torch">>, <<"lantern">>, <<"lever">>, <<"rail">>,
      <<"oak", "_", "door">>, <<"oak", "_", "sign">>, <<"ladder">>, <<"vine">>,
      <<"fire">>, <<"soul", "_", "fire">>, <<"oak", "_", "fence">>,
      <<"cobblestone", "_", "wall">> }

\* _is_skip_block, were the name looked up without stripping it
IsSkipBlockUnstripped(block_name) == block_name \in SkipBlocks

\* _is_skip_block
IsSkipBlock(block_name) == BaseName(block_name) \in SkipBlocks

\* a variant of the table whose default is the sentinel of air
BlockToColorUnknownAir(lookup_name) ==
    CASE lookup_name = <<"air">> -> -1
      [] lookup_name = <<"stone">> -> 71
      [] lookup_name = <<"cobblestone">> -> 72
      [] lookup_name = <<"white", "_", "wool">> -> 15
      [] lookup_name = <<"white", "_", "carpet">> -> 15
      [] lookup_name = <<"oak", "_", "planks">> -> 70
      [] lookup_name = <<"fire">> -> 25
      [] lookup_name = <<"soul", "_", "fire">> -> 11
      [] lookup_name = <<"oak", "_", "stairs">> -> 70
      [] lookup_name = <<"stone", "_", "stairs">> -> 71
      [] lookup_name = <<"cobblestone", "_", "stairs">> -> 72
      [] lookup_name = <<"oak", "_", "slab">> -> 70
      [] lookup_name = <<"stone", "_", "slab">> -> 71
      [] OTHER -> -1

\* block_to_color.get(lookup_name, 7) (the entries among the names used here)
BlockToColor(lookup_name) ==
    CASE lookup_name = <<"air">> -> -1
      [] lookup_name = <<"stone">> -> 71
      [] lookup_name = <<"cobblestone">> -> 72
      [] lookup_name = <<"white", "_", "wool">> -> 15
      [] lookup_name = <<"white", "_", "carpet">> -> 15
      [] lookup_name = <<"oak", "_", "planks">> -> 70
      [] lookup_name = <<"fire">> -> 25
      [] lookup_name = <<"soul", "_", "fire">> -> 11
      [] lookup_name = <<"oak", "_", "stairs">> -> 70
      [] lookup_name = <<"stone", "_", "stairs">> -> 71
      [] lookup_name = <<"cobblestone", "_", "stairs">> -> 72
      [] lookup_name = <<"oak", "_", "slab">> -> 70
      [] lookup_name = <<"stone", "_", "slab">> -> 71
      [] OTHER -> 7

\* _get_color_from_block_name: the name is stripped of namespace and state, and
\* of the state once more for the lookup
GetColorFromBlockName(block_name) == BlockToColor(StripState(BaseName(block_name)))

\* a variant of self.rotations whose west entry repeats the east matrix
RotationsWestAsEast(facing) ==
    CASE facing = <<"north">> -> << 1, 0, 0, 0, 1, 0, 0, 0, 1 >>
      [] facing = <<"east">>  -> << 0, 0, -1, 0, 1, 0, 1, 0, 0 >>
      [] facing = <<"south">> -> << -1, 0, 0, 0, 1, 0, 0, 0, -1 >>
      [] facing = <<"west">>  -> << 0, 0, -1, 0, 1, 0, 1, 0, 0 >>
      [] OTHER -> << 1, 0, 0, 0, 1, 0, 0, 0, 1 >>

\* self.rotations, each matrix as its nine entries
Rotations(facing) ==
    CASE facing = <<"north">> -> << 1, 0, 0, 0, 1, 0, 0, 0, 1 >>
      [] facing = <<"east">>  -> << 0, 0, -1, 0, 1, 0, 1, 0, 0 >>
      [] facing = <<"south">> -> << -1, 0, 0, 0, 1, 0, 0, 0, -1 >>
      [] facing = <<"west">>  -> << 0, 0, 1, 0, 1, 0, -1, 0, 0 >>
      [] OTHER -> << 1, 0, 0, 0, 1, 0, 0, 0, 1 >>

IdentityRotation == << 1, 0, 0, 0, 1, 0, 0, 0, 1 >>

\* _flip_rotation_y: entries 3..8 (0-based) are negated
FlipRotationY(rotation) == [k \in 1..9 |-> IF k >= 4 THEN 0 - rotation[k] ELSE rotation[k]]

\* the result None of _get_special_part_info
NoSpecial ==
    [type |-> "none", part |-> "", rotation |-> IdentityRotation, y_offset |-> 0,
     facing |-> <<>>, half |-> <<>>, slab_type |-> <<>>]

\* the result for a stair
StairInfo(facing, half) ==
    [type |-> "stair", part |-> "54200",
     rotation |-> IF half = <<"top">> THEN FlipRotationY(Rotations(facing))
                                      ELSE Rotations(facing),
     y_offset |-> IF half = <<"top">> THEN 24 ELSE 0,
     facing |-> facing, half |-> half, slab_type |-> <<>>]

\* the result for a slab: None for a double slab
SlabInfo(slab_type) ==
    IF slab_type = <<"double">> THEN NoSpecial
    ELSE [type |-> "slab", part |-> "3024", rotation |-> Rotations(<<"north">>),
          y_offset |-> IF slab_type = <<"top">> THEN 0 ELSE 16,
          facing |-> <<>>, half |-> <<>>, slab_type |-> slab_type]

\* a variant that tests "slab" before "stair"
SpecialPartOfSlabFirst(parsed) ==
    IF HasSubstring(parsed.base, "slab")
    THEN SlabInfo(PropsGet(parsed.props, <<"type">>, <<"bottom">>))
    ELSE IF HasSubstring(parsed.base, "stairs") \/ HasSubstring(parsed.base, "stair")
    THEN StairInfo(PropsGet(parsed.props, <<"facing">>, <<"north">>),
                   PropsGet(parsed.props, <<"half">>, <<"bottom">>))
    ELSE IF HasSubstring(parsed.base, "carpet")
    THEN [type |-> "carpet", part |-> "3024", rotation |-> Rotations(<<"north">>),
          y_offset |-> 16, facing |-> <<>>, half |-> <<>>, slab_type |-> <<>>]
    ELSE NoSpecial

\* _get_special_part_info past the call of _parse_block_state
SpecialPartOf(parsed) ==
    IF HasSubstring(parsed.base, "stairs") \/ HasSubstring(parsed.base, "stair")
    THEN StairInfo(PropsGet(parsed.props, <<"facing">>, <<"north">>),
                   PropsGet(parsed.props, <<"half">>, <<"bottom">>))
    ELSE IF HasSubstring(parsed.base, "slab")
    THEN SlabInfo(PropsGet(parsed.props, <<"type">>, <<"bottom">>))
    ELSE IF HasSubstring(parsed.base, "carpet")
    THEN [type |-> "carpet", part |-> "3024", rotation |-> Rotations(<<"north">>),
          y_offset |-> 16, facing |-> <<>>, half |-> <<>>, slab_type |-> <<>>]
    ELSE NoSpecial

\* _get_special_part_info
GetSpecialPartInfo(block_name) == SpecialPartOf(ParseBlockState(block_name))

\* "if special_info:" - None is the only falsy result
IsSpecial(info) == info.type # "none"

----------------------------------------------------------------------------
(* Legacy colours *)

\* self.block_colors.get(block_id, 7)
BlockColors(block_id) ==
    CASE block_id = 1 -> 71 [] block_id = 2 -> 10 [] block_id = 3 -> 6 [] block_id = 4 -> 72
      [] block_id = 5 -> 70 [] block_id = 6 -> 10 [] block_id = 7 -> 0 [] block_id = 8 -> 73
      [] block_id = 9 -> 73 [] block_id = 10 -> 25 [] block_id = 11 -> 25 [] block_id = 12 -> 19
      [] block_id = 13 -> 71 [] block_id = 14 -> 14 [] block_id = 15 -> 71 [] block_id = 16 -> 0
      [] block_id = 17 -> 70 [] block_id = 18 -> 2 [] block_id = 19 -> 14 [] block_id = 20 -> 47
      [] block_id = 21 -> 1 [] block_id = 22 -> 1 [] block_id = 23 -> 72 [] block_id = 24 -> 19
      [] block_id = 25 -> 70 [] block_id = 26 -> 4 [] block_id = 27 -> 14 [] block_id = 28 -> 70
      [] block_id = 29 -> 27 [] block_id = 30 -> 15 [] block_id = 31 -> 2 [] block_id = 32 -> 6
      [] block_id = 33 -> 70 [] block_id = 34 -> 19 [] block_id = 35 -> 15 [] block_id = 37 -> 14
      [] block_id = 38 -> 4 [] block_id = 39 -> 6 [] block_id = 40 -> 4 [] block_id = 41 -> 14
      [] block_id = 42 -> 71 [] block_id = 43 -> 71 [] block_id = 44 -> 71 [] block_id = 45 -> 320
      [] block_id = 46 -> 4 [] block_id = 47 -> 70 [] block_id = 48 -> 378 [] block_id = 49 -> 0
      [] block_id = 50 -> 25 [] block_id = 51 -> 25 [] block_id = 52 -> 9 [] block_id = 53 -> 70
      [] block_id = 54 -> 70 [] block_id = 55 -> 4 [] block_id = 56 -> 41 [] block_id = 57 -> 41
      [] block_id = 58 -> 70 [] block_id = 59 -> 326 [] block_id = 60 -> 6 [] block_id = 61 -> 72
      [] block_id = 62 -> 72 [] block_id = 63 -> 70 [] block_id = 64 -> 70 [] block_id = 65 -> 70
      [] block_id = 66 -> 72 [] block_id = 67 -> 72 [] block_id = 68 -> 70 [] block_id = 69 -> 72
      [] block_id = 70 -> 71 [] block_id = 71 -> 71 [] block_id = 72 -> 70 [] block_id = 73 -> 4
      [] block_id = 74 -> 4 [] block_id = 75 -> 4 [] block_id = 76 -> 4 [] block_id = 77 -> 71
      [] block_id = 78 -> 15 [] block_id = 79 -> 41 [] block_id = 80 -> 15 [] block_id = 81 -> 288
      [] block_id = 82 -> 71 [] block_id = 83 -> 27 [] block_id = 84 -> 70 [] block_id = 85 -> 70
      [] block_id = 86 -> 25 [] block_id = 87 -> 320 [] block_id = 88 -> 6 [] block_id = 89 -> 326
      [] block_id = 90 -> 85 [] block_id = 91 -> 25 [] block_id = 92 -> 15 [] block_id = 93 -> 71
      [] block_id = 94 -> 71 [] block_id = 95 -> 47 [] block_id = 96 -> 70 [] block_id = 97 -> 71
      [] block_id = 98 -> 71 [] block_id = 99 -> 6 [] block_id = 100 -> 4 [] block_id = 101 -> 72
      [] block_id = 102 -> 47 [] block_id = 103 -> 10 [] block_id = 104 -> 2 [] block_id = 105 -> 2
      [] block_id = 106 -> 2 [] block_id = 107 -> 70 [] block_id = 108 -> 320 [] block_id = 109 -> 71
      [] block_id = 110 -> 379 [] block_id = 111 -> 10 [] block_id = 112 -> 320 [] block_id = 113 -> 320
      [] block_id = 114 -> 320 [] block_id = 115 -> 4 [] block_id = 116 -> 41 [] block_id = 117 -> 85
      [] block_id = 118 -> 72 [] block_id = 119 -> 0 [] block_id = 120 -> 378 [] block_id = 121 -> 326
      [] block_id = 122 -> 0 [] block_id = 123 -> 25 [] block_id = 124 -> 25 [] block_id = 125 -> 70
      [] block_id = 126 -> 70 [] block_id = 127 -> 2 [] block_id = 128 -> 19 [] block_id = 129 -> 10
      [] block_id = 130 -> 85 [] block_id = 131 -> 70 [] block_id = 132 -> 7 [] block_id = 133 -> 10
      [] block_id = 134 -> 70 [] block_id = 135 -> 191 [] block_id = 136 -> 70 [] block_id = 137 -> 25
      [] block_id = 138 -> 41 [] block_id = 139 -> 72 [] block_id = 140 -> 70 [] block_id = 141 -> 2
      [] block_id = 142 -> 2 [] block_id = 143 -> 70 [] block_id = 144 -> 15 [] block_id = 145 -> 72
      [] block_id = 146 -> 70 [] block_id = 147 -> 14 [] block_id = 148 -> 71 [] block_id = 149 -> 71
      [] block_id = 150 -> 71 [] block_id = 151 -> 70 [] block_id = 152 -> 4 [] block_id = 153 -> 320
      [] block_id = 154 -> 72 [] block_id = 155 -> 15 [] block_id = 156 -> 15 [] block_id = 157 -> 70
      [] block_id = 158 -> 72 [] block_id = 159 -> 15 [] block_id = 160 -> 47 [] block_id = 161 -> 10
      [] block_id = 162 -> 70 [] block_id = 163 -> 484 [] block_id = 164 -> 6 [] block_id = 165 -> 27
      [] block_id = 166 -> 47 [] block_id = 167 -> 71 [] block_id = 168 -> 11 [] block_id = 169 -> 41
      [] block_id = 170 -> 14 [] block_id = 171 -> 15 [] block_id = 172 -> 28 [] block_id = 173 -> 0
      [] block_id = 174 -> 41 [] block_id = 175 -> 2 [] block_id = 176 -> 15 [] block_id = 177 -> 15
      [] block_id = 178 -> 70 [] block_id = 179 -> 484 [] block_id = 180 -> 484 [] block_id = 181 -> 484
      [] block_id = 182 -> 484 [] block_id = 183 -> 70 [] block_id = 184 -> 191 [] block_id = 185 -> 70
      [] block_id = 186 -> 6 [] block_id = 187 -> 484 [] block_id = 188 -> 70 [] block_id = 189 -> 191
      [] block_id = 190 -> 70 [] block_id = 191 -> 6 [] block_id = 192 -> 484 [] block_id = 193 -> 70
      [] block_id = 194 -> 191 [] block_id = 195 -> 70 [] block_id = 196 -> 484 [] block_id = 197 -> 6
      [] block_id = 198 -> 4 [] block_id = 199 -> 85 [] block_id = 200 -> 85 [] block_id = 201 -> 85
      [] block_id = 202 -> 85 [] block_id = 203 -> 85 [] block_id = 204 -> 85 [] block_id = 205 -> 85
      [] block_id = 206 -> 326 [] block_id = 207 -> 2 [] block_id = 208 -> 6 [] block_id = 209 -> 0
      [] block_id = 210 -> 25 [] block_id = 211 -> 27 [] block_id = 212 -> 41 [] block_id = 213 -> 25
      [] block_id = 214 -> 320 [] block_id = 215 -> 320 [] block_id = 216 -> 15 [] block_id = 217 -> 85
      [] block_id = 218 -> 72 [] block_id = 219 -> 15 [] block_id = 220 -> 25 [] block_id = 221 -> 5
      [] block_id = 222 -> 9 [] block_id = 223 -> 14 [] block_id = 224 -> 27 [] block_id = 225 -> 13
      [] block_id = 226 -> 8 [] block_id = 227 -> 7 [] block_id = 228 -> 11 [] block_id = 229 -> 85
      [] block_id = 230 -> 1 [] block_id = 231 -> 6 [] block_id = 232 -> 2 [] block_id = 233 -> 4
      [] block_id = 234 -> 0 [] block_id = 235 -> 15 [] block_id = 236 -> 25 [] block_id = 237 -> 5
      [] block_id = 238 -> 9 [] block_id = 239 -> 14 [] block_id = 240 -> 27 [] block_id = 241 -> 13
      [] block_id = 242 -> 8 [] block_id = 243 -> 7 [] block_id = 244 -> 11 [] block_id = 245 -> 85
      [] block_id = 246 -> 1 [] block_id = 247 -> 6 [] block_id = 248 -> 2 [] block_id = 249 -> 4
      [] block_id = 250 -> 0 [] block_id = 251 -> 15 [] block_id = 252 -> 15 [] block_id = 255 -> 72
      [] OTHER -> 7

\* self.wool_color_mappings
WoolColorMappings ==
    [d \in 0..15 |->
        << 15, 25, 13, 9, 14, 27, 13, 8, 7, 11, 5, 1, 6, 2, 4, 0 >>[d + 1]]

ColorDataBlocks == {35, 95, 159, 160, 171, 251, 252}

\* get_brick_info, were an id the table lacks given the sentinel of air
GetBrickInfoUnknownSentinel(block_id, data_value) ==
    IF block_id \in ColorDataBlocks /\ data_value \in DOMAIN WoolColorMappings
    THEN WoolColorMappings[data_value]
    ELSE IF block_id \in { 36, 253, 254 } THEN -1 ELSE BlockColors(block_id)

\* get_brick_info, were the data value never consulted
GetBrickInfoIdOnly(block_id, data_value) == BlockColors(block_id)

\* get_brick_info: the colour of the pair (brick_type, color_id)
GetBrickInfo(block_id, data_value) ==
    IF block_id \in ColorDataBlocks /\ data_value \in DOMAIN WoolColorMappings
    THEN WoolColorMappings[data_value]
    ELSE BlockColors(block_id)

----------------------------------------------------------------------------
(* Grids.  blocks is the 3-D array blocks[y][z][x]; block_names and data    *)
(* are flat; width, height and length are the numbers read from the file.   *)

NoSchematic ==
    [format |-> "none", width |-> 0, height |-> 0, length |-> 0, blocks |-> <<>>,
     has_data |-> FALSE, data |-> <<>>, has_block_names |-> FALSE, block_names |-> <<>>]

\* data_index = y * length * width + z * width + x
DataIndex(s, y, z, x) == y * s.length * s.width + z * s.width + x

\* the cells in the order of "for y in range(height): for z in range(length):
\* for x in range(width)"
ScanOrder(s) ==
    IF s.width <= 0 \/ s.height <= 0 \/ s.length <= 0 THEN <<>>
    ELSE [p \in 1..(s.width * s.height * s.length) |->
             << (p - 1) \div (s.length * s.width),
                ((p - 1) \div s.width) % s.length,
                (p - 1) % s.width >>]

\* a placement line "1 color x y z rotation part.dat"
Line(color, x, y, z, rotation, part) ==
    [color |-> color, x |-> x, y |-> y, z |-> z, rotation |-> rotation, part |-> part]

\* a variant that measures from the first cell instead of the middle of the grid
CenteredAtFirstCell(c2, n, scale) == c2 * 10 * scale

\* (c - n / 2) * stud_size for a coordinate c = c2 / 2, stud_size = 20 * scale
Centered(c2, n, scale) == (c2 - n) * 10 * scale

\* a variant that stacks two bricks for every block, special or not
EmitBlock2xAlwaysStacked(base_x, base_y, base_z, color_id, special_info) ==
    << Line(color_id, base_x, base_y, base_z, IdentityRotation, "3003"),
       Line(color_id, base_x, base_y + 24, base_z, IdentityRotation, "3003") >>

\* _emit_block_2x: the lines appended
EmitBlock2x(base_x, base_y, base_z, color_id, special_info) ==
    IF special_info.type = "stair"
    THEN IF special_info.half = <<"bottom">>
         THEN << Line(color_id, base_x, base_y + 24, base_z, IdentityRotation, "3003"),
                 Line(color_id, base_x, base_y + 16, base_z, IdentityRotation, "3022") >>
         ELSE << Line(color_id, base_x, base_y, base_z, IdentityRotation, "3003"),
                 Line(color_id, base_x, base_y + 24, base_z, IdentityRotation, "3022") >>
    ELSE IF special_info.type = "slab"
    THEN IF special_info.slab_type = <<"bottom">>
         THEN << Line(color_id, base_x, base_y + 24, base_z, IdentityRotation, "3003") >>
         ELSE << Line(color_id, base_x, base_y, base_z, IdentityRotation, "3003") >>
    ELSE IF special_info.type = "carpet"
    THEN << Line(color_id, base_x, base_y + 40, base_z, IdentityRotation, "3022") >>
    ELSE << Line(color_id, base_x, base_y, base_z, IdentityRotation, "3003"),
            Line(color_id, base_x, base_y + 24, base_z, IdentityRotation, "3003") >>

\* a region: the cells (y, z..z+z_len-1, x..x+x_len-1) one emission stands for,
\* the kind of the emission and the number of lines it appended
Region(y, z, x, z_len, x_len, kind, n) ==
    [y |-> y, z |-> z, x |-> x, z_len |-> z_len, x_len |-> x_len, kind |-> kind, n |-> n]

\* a cell that is passed over ("continue"): skip is set, and color_grid keeps -1
NoCell == [color |-> -1, named |-> FALSE, block_name |-> <<>>, skip |-> TRUE]

\* a variant that consults the skip set only for a name without a colour entry
NamedCellSkipUncoloured(block_name, color_id) ==
    IF color_id = -1 THEN NoCell
    ELSE IF color_id = 7 /\ IsSkipBlock(block_name) THEN NoCell
    ELSE [color |-> color_id, named |-> TRUE, block_name |-> block_name, skip |-> FALSE]

\* a cell whose name was read: passed over when it is air or a skipped block
NamedCell(block_name, color_id) ==
    IF color_id = -1 THEN NoCell
    ELSE IF IsSkipBlock(block_name) THEN NoCell
    ELSE [color |-> color_id, named |-> TRUE, block_name |-> block_name, skip |-> FALSE]

\* the colour of one cell as both conversions compute it: -1 when the cell is
\* passed over ("continue"), and the block name when one was read
CellColor(s, y, z, x) ==
    IF s.blocks[y][z][x] = 0 THEN NoCell
    ELSE IF s.has_block_names
    THEN IF DataIndex(s, y, z, x) < Len(s.block_names)
         THEN NamedCell(s.block_names[DataIndex(s, y, z, x) + 1],
                        GetColorFromBlockName(s.block_names[DataIndex(s, y, z, x) + 1]))
         ELSE [color |-> 7, named |-> FALSE, block_name |-> <<>>, skip |-> FALSE]
    ELSE [color |-> GetBrickInfo(s.blocks[y][z][x],
                                 IF s.has_data /\ DataIndex(s, y, z, x) < Len(s.data)
                                 THEN s.data[DataIndex(s, y, z, x) + 1] ELSE 0),
          named |-> FALSE, block_name |-> <<>>, skip |-> FALSE]

----------------------------------------------------------------------------
(* _convert_standard *)

\* a variant that gives a cell without a name the shape of a stair
StandardSpecialUnnamedStair(cell) ==
    IF cell.named /\ cell.block_name # <<>>
    THEN GetSpecialPartInfo(cell.block_name)
    ELSE StairInfo(<<"north">>, <<"bottom">>)

\* special_info of a cell: looked up only for a name that was read
StandardSpecial(cell) ==
    IF cell.named /\ cell.block_name # <<>>
    THEN GetSpecialPartInfo(cell.block_name) ELSE NoSpecial

\* the lines of one cell: _emit_block_2x at scale 2, one part at scale 1
StandardLines(scale, color_id, special_info, ldraw_x, ldraw_y, ldraw_z) ==
    IF scale = 2
    THEN EmitBlock2x(ldraw_x, ldraw_y, ldraw_z, color_id, special_info)
    ELSE IF IsSpecial(special_info)
    THEN << Line(color_id, ldraw_x, ldraw_y + special_info.y_offset, ldraw_z,
                 special_info.rotation, special_info.part) >>
    ELSE << Line(color_id, ldraw_x, ldraw_y, ldraw_z, IdentityRotation, "3005") >>

\* the lines of one cell with the region they stand for
StandardEmit(y, z, x, special_info, lines) ==
    [lines   |-> lines,
     regions |-> << Region(y, z, x, 1, 1, special_info.type, Len(lines)) >>]

\* the body of the loop past the colour and the special part of the cell
StandardPlace(s, scale, y, z, x, cell, special_info) ==
    IF cell.skip THEN [lines |-> <<>>, regions |-> <<>>]
    ELSE StandardEmit(y, z, x, special_info,
             StandardLines(scale, cell.color, special_info,
                           Centered(2 * x, s.width, scale), (0 - y) * 24 * scale,
                           Centered(2 * z, s.length, scale)))

\* the body of the loop past the colour of the cell
StandardColored(s, scale, y, z, x, cell) ==
    StandardPlace(s, scale, y, z, x, cell, StandardSpecial(cell))

\* the body of the loop for one cell: the lines it appends and their region
StandardCell(s, scale, y, z, x) ==
    StandardColored(s, scale, y, z, x, CellColor(s, y, z, x))

\* the lines and regions of a cell followed by those of the later cells
Joined(head, rest) ==
    [lines |-> head.lines \o rest.lines, regions |-> head.regions \o rest.regions]

RECURSIVE StandardScan(_, _, _, _)
StandardScan(s, scale, order, k) ==
    IF k > Len(order) THEN [lines |-> <<>>, regions |-> <<>>]
    ELSE Joined(StandardCell(s, scale, order[k][1], order[k][2], order[k][3]),
                StandardScan(s, scale, order, k + 1))

ConvertStandard(s, scale) == StandardScan(s, scale, ScanOrder(s), 1)

----------------------------------------------------------------------------
(* _convert_optimized *)

Cells(s) == { ScanOrder(s)[p] : p \in 1..Len(ScanOrder(s)) }

\* color_grid after the analysis pass: -1 where the pass hit "continue"
ColorGrid(s) == [c \in Cells(s) |-> CellColor(s, c[1], c[2], c[3]).color]

\* special_blocks[y, z, x] = True: a cell with a name that maps to a special part
IsSpecialCell(cell) == cell.named /\ IsSpecial(GetSpecialPartInfo(cell.block_name))

\* special_blocks after the analysis pass
SpecialBlocks(s) == [c \in Cells(s) |-> IsSpecialCell(CellColor(s, c[1], c[2], c[3]))]

\* self.brick_sizes: the keys, and the part of a key
BrickSizeKeys ==
    { <<1, 8>>, <<1, 6>>, <<1, 4>>, <<1, 3>>, <<1, 2>>, <<1, 1>>,
      <<2, 8>>, <<2, 6>>, <<2, 4>>, <<2, 3>>, <<2, 2>> }

BrickSizes(key) ==
    CASE key = <<1, 8>> -> "3008"
      [] key = <<1, 6>> -> "3009"
      [] key = <<1, 4>> -> "3010"
      [] key = <<1, 3>> -> "3622"
      [] key = <<1, 2>> -> "3004"
      [] key = <<1, 1>> -> "3005"
      [] key = <<2, 8>> -> "3007"
      [] key = <<2, 6>> -> "2456"
      [] key = <<2, 4>> -> "3001"
      [] key = <<2, 3>> -> "3002"
      [] key = <<2, 2>> -> "3003"

\* a variant of the run lengths that also tries 5
XLengthsWithFive == << 8, 6, 5, 4, 3, 2, 1 >>

\* x_lengths and scale2_x_lengths
XLengths == << 8, 6, 4, 3, 2, 1 >>
Scale2XLengths == << 4, 3, 2, 1 >>

\* scale2_brick_map
Scale2BrickMap(n) ==
    CASE n = 1 -> "3003" [] n = 2 -> "3001" [] n = 3 -> "2456" [] n = 4 -> "3007"

\* a variant of the search that keeps the last valid length of the list
BestXLenLastValid(lengths, valid) ==
    IF \E k \in 1..Len(lengths) : lengths[k] \in valid
    THEN lengths[CHOOSE k \in 1..Len(lengths) :
                     lengths[k] \in valid
                     /\ \A j \in (k + 1)..Len(lengths) : lengths[j] \notin valid]
    ELSE 1

\* "for x_len in lengths: ... if valid: best_x_len = x_len; break", from
\* best_x_len = 1; valid holds the lengths that pass the run test
BestXLen(lengths, valid) ==
    IF \E k \in 1..Len(lengths) : lengths[k] \in valid
    THEN lengths[CHOOSE k \in 1..Len(lengths) :
                     lengths[k] \in valid /\ \A j \in 1..(k - 1) : lengths[j] \notin valid]
    ELSE 1

\* the lengths of a list
Lengths(lengths) == { lengths[k] : k \in 1..Len(lengths) }

\* the run test of the scale-2 branch: the run fits and no cell of it is used,
\* of another colour or special
RunValid2(s, cg, sb, used, y, z, x, x_len) ==
    /\ x + x_len <= s.width
    /\ \A dx \in 0..(x_len - 1) :
          ~ ( << y, z, x + dx >> \in used
              \/ cg[<< y, z, x + dx >>] # cg[<< y, z, x >>]
              \/ sb[<< y, z, x + dx >>] )

\* the run test of the scale-1 branch: the run fits and no cell of it is used
\* or of another colour
RunValid1(s, cg, sb, used, y, z, x, x_len) ==
    /\ x + x_len <= s.width
    /\ \A dx \in 0..(x_len - 1) :
          ~ ( << y, z, x + dx >> \in used
              \/ cg[<< y, z, x + dx >>] # cg[<< y, z, x >>] )

\* the scale-2 body past the search of the run: the cells marked used and the
\* two stacked bricks
MergeEmit2(s, acc, y, z, x, color_id, best_x_len) ==
    [used    |-> acc.used \cup { << y, z, x + dx >> : dx \in 0..(best_x_len - 1) },
     lines   |-> acc.lines \o
                 << Line(color_id, Centered(2 * x + best_x_len - 1, s.width, 2), (0 - y) * 48,
                         Centered(2 * z, s.length, 2), IdentityRotation,
                         Scale2BrickMap(best_x_len)),
                    Line(color_id, Centered(2 * x + best_x_len - 1, s.width, 2),
                         (0 - y) * 48 + 24, Centered(2 * z, s.length, 2), IdentityRotation,
                         Scale2BrickMap(best_x_len)) >>,
     regions |-> Append(acc.regions, Region(y, z, x, 1, best_x_len, "merged", 2))]

\* the body of the merge loop for a cell that starts a brick, at scale 2
MergeCell2(s, cg, sb, acc, y, z, x) ==
    MergeEmit2(s, acc, y, z, x, cg[<< y, z, x >>],
               BestXLen(Scale2XLengths,
                        { n \in Lengths(Scale2XLengths) :
                            RunValid2(s, cg, sb, acc.used, y, z, x, n) }))

\* the scale-1 body, were only the first row of a two-wide brick marked used
MergeCell1FirstRowUsed(s, cg, sb, acc, y, z, x) ==
    LET color_id == cg[<< y, z, x >>]
        valid    == { n \in Lengths(XLengths) : RunValid1(s, cg, sb, acc.used, y, z, x, n) }
        found_x  == BestXLen(XLengths, valid)
        can_extend_z ==
            /\ z + 1 < s.length
            /\ found_x >= 2
            /\ \A dx \in 0..(found_x - 1) :
                  ~ ( << y, z + 1, x + dx >> \in acc.used
                      \/ cg[<< y, z + 1, x + dx >>] # color_id )
        best_z_len == IF can_extend_z /\ << 2, found_x >> \in BrickSizeKeys THEN 2 ELSE 1
    IN  [used    |-> acc.used \cup { << y, z, x + dx >> : dx \in 0..(found_x - 1) },
         lines   |-> Append(acc.lines,
                            Line(color_id, Centered(2 * x + found_x - 1, s.width, 1),
                                 (0 - y) * 24, Centered(2 * z + best_z_len - 1, s.length, 1),
                                 IdentityRotation, BrickSizes(<< best_z_len, found_x >>))),
         regions |-> Append(acc.regions,
                            Region(y, z, x, best_z_len, found_x, "merged", 1))]

\* the test of the second row: the next row exists, the run is two or more
\* long, and no cell under it is used or of another colour
CanExtendZ(s, cg, used, y, z, x, color_id, best_x_len) ==
    /\ z + 1 < s.length
    /\ best_x_len >= 2
    /\ \A dx \in 0..(best_x_len - 1) :
          ~ ( << y, z + 1, x + dx >> \in used
              \/ cg[<< y, z + 1, x + dx >>] # color_id )

\* best_z_len: 2 when the second row passes and brick_sizes holds the brick
BestZLen(can_extend_z, best_x_len) ==
    IF can_extend_z /\ << 2, best_x_len >> \in BrickSizeKeys THEN 2 ELSE 1

\* a variant that marks the cells of the brick used in every layer
MergeEmit1UsedInAllLayers(s, acc, y, z, x, color_id, best_z_len, best_x_len, brick_type, kind) ==
    [used    |-> acc.used \cup { << yy, z + dz, x + dx >> :
                                   yy \in 0..(s.height - 1),
                                   dz \in 0..(best_z_len - 1), dx \in 0..(best_x_len - 1) },
     lines   |-> Append(acc.lines,
                        Line(color_id, Centered(2 * x + best_x_len - 1, s.width, 1),
                             (0 - y) * 24, Centered(2 * z + best_z_len - 1, s.length, 1),
                             IdentityRotation, brick_type)),
     regions |-> Append(acc.regions, Region(y, z, x, best_z_len, best_x_len, kind, 1))]

\* a variant that places the brick at the first cell of the run
MergeEmit1AtRunStart(s, acc, y, z, x, color_id, best_z_len, best_x_len, brick_type, kind) ==
    [used    |-> acc.used \cup { << y, z + dz, x + dx >> :
                                   dz \in 0..(best_z_len - 1), dx \in 0..(best_x_len - 1) },
     lines   |-> Append(acc.lines,
                        Line(color_id, Centered(2 * x, s.width, 1),
                             (0 - y) * 24, Centered(2 * z, s.length, 1),
                             IdentityRotation, brick_type)),
     regions |-> Append(acc.regions, Region(y, z, x, best_z_len, best_x_len, kind, 1))]

\* the cells marked used and the brick placed; the region is "merged" for a
\* size brick_sizes holds and "fallback" for one it does not
MergeEmit1(s, acc, y, z, x, color_id, best_z_len, best_x_len, brick_type, kind) ==
    [used    |-> acc.used \cup { << y, z + dz, x + dx >> :
                                   dz \in 0..(best_z_len - 1), dx \in 0..(best_x_len - 1) },
     lines   |-> Append(acc.lines,
                        Line(color_id, Centered(2 * x + best_x_len - 1, s.width, 1),
                             (0 - y) * 24, Centered(2 * z + best_z_len - 1, s.length, 1),
                             IdentityRotation, brick_type)),
     regions |-> Append(acc.regions, Region(y, z, x, best_z_len, best_x_len, kind, 1))]

\* the lookup of the brick: a size brick_sizes does not hold falls back to 1x1
MergeBrick1(s, acc, y, z, x, color_id, best_z_len, best_x_len) ==
    IF << best_z_len, best_x_len >> \in BrickSizeKeys
    THEN MergeEmit1(s, acc, y, z, x, color_id, best_z_len, best_x_len,
                    BrickSizes(<< best_z_len, best_x_len >>), "merged")
    ELSE MergeEmit1(s, acc, y, z, x, color_id, 1, 1, "3005", "fallback")

\* a variant that pairs a single voxel with the matching one behind it, as
\* a 1x2 brick laid along Z
MergeRun1PairsAlongZ(s, cg, acc, y, z, x, color_id, best_x_len) ==
    IF /\ best_x_len = 1
       /\ z + 1 < s.length
       /\ << y, z + 1, x >> \notin acc.used
       /\ cg[<< y, z + 1, x >>] = color_id
    THEN MergeEmit1(s, acc, y, z, x, color_id, 2, 1, "3004", "merged")
    ELSE MergeBrick1(s, acc, y, z, x, color_id,
                     BestZLen(CanExtendZ(s, cg, acc.used, y, z, x, color_id, best_x_len),
                              best_x_len),
                     best_x_len)

\* the scale-1 body past the search of the run
MergeRun1(s, cg, acc, y, z, x, color_id, best_x_len) ==
    MergeBrick1(s, acc, y, z, x, color_id,
                BestZLen(CanExtendZ(s, cg, acc.used, y, z, x, color_id, best_x_len),
                         best_x_len),
                best_x_len)

\* the body of the merge loop for a cell that starts a brick, at scale 1
MergeCell1(s, cg, sb, acc, y, z, x) ==
    MergeRun1(s, cg, acc, y, z, x, cg[<< y, z, x >>],
              BestXLen(XLengths,
                       { n \in Lengths(XLengths) :
                           RunValid1(s, cg, sb, acc.used, y, z, x, n) }))

\* the merge loop, from position k of the scan
RECURSIVE MergeScan(_, _, _, _, _, _, _)
MergeScan(s, scale, cg, sb, order, k, acc) ==
    IF k > Len(order) THEN acc
    ELSE LET c == order[k]
         IN  IF c \in acc.used \/ cg[c] = -1 \/ sb[c]
             THEN MergeScan(s, scale, cg, sb, order, k + 1, acc)
             ELSE MergeScan(s, scale, cg, sb, order, k + 1,
                            IF scale = 2 THEN MergeCell2(s, cg, sb, acc, c[1], c[2], c[3])
                            ELSE MergeCell1(s, cg, sb, acc, c[1], c[2], c[3]))

\* the lines of a special cell: _emit_block_2x at scale 2, the part at scale 1
SpecialLines(scale, color_id, special_info, ldraw_x, ldraw_y, ldraw_z) ==
    IF scale = 2
    THEN EmitBlock2x(ldraw_x, ldraw_y, ldraw_z, color_id, special_info)
    ELSE << Line(color_id, ldraw_x, ldraw_y + special_info.y_offset, ldraw_z,
                 special_info.rotation, special_info.part) >>

\* the cell marked used, its lines appended, and the region they stand for
SpecialEmit(acc, y, z, x, special_info, lines) ==
    [used    |-> acc.used \cup { << y, z, x >> },
     lines   |-> acc.lines \o lines,
     regions |-> Append(acc.regions, Region(y, z, x, 1, 1, special_info.type, Len(lines)))]

\* the body past the lookup of the special part
SpecialPlace(s, scale, cg, acc, y, z, x, special_info) ==
    SpecialEmit(acc, y, z, x, special_info,
                SpecialLines(scale, cg[<< y, z, x >>], special_info,
                             Centered(2 * x, s.width, scale), (0 - y) * 24 * scale,
                             Centered(2 * z, s.length, scale)))

\* the body of the loop over the special blocks for one cell that is emitted
SpecialCell(s, scale, cg, acc, y, z, x) ==
    SpecialPlace(s, scale, cg, acc, y, z, x,
                 GetSpecialPartInfo(s.block_names[DataIndex(s, y, z, x) + 1]))

\* the loop over the special blocks, from position k of the scan
RECURSIVE SpecialScan(_, _, _, _, _, _, _)
SpecialScan(s, scale, cg, sb, order, k, acc) ==
    IF k > Len(order) THEN acc
    ELSE LET c == order[k]
             has_name == s.has_block_names
                         /\ DataIndex(s, c[1], c[2], c[3]) < Len(s.block_names)
         IN  IF c \in acc.used \/ ~ sb[c] \/ cg[c] = -1
             THEN SpecialScan(s, scale, cg, sb, order, k + 1, acc)
             ELSE IF ~ has_name
                     \/ s.block_names[DataIndex(s, c[1], c[2], c[3]) + 1] = <<>>
                     \/ ~ IsSpecial(GetSpecialPartInfo(
                              s.block_names[DataIndex(s, c[1], c[2], c[3]) + 1]))
             THEN SpecialScan(s, scale, cg, sb, order, k + 1, acc)
             ELSE SpecialScan(s, scale, cg, sb, order, k + 1,
                              SpecialCell(s, scale, cg, acc, c[1], c[2], c[3]))

\* the two passes over the grids of the analysis pass
ConvertOptimizedOver(s, scale, cg, sb, order) ==
    SpecialScan(s, scale, cg, sb, order, 1,
                MergeScan(s, scale, cg, sb, order, 1,
                          [used |-> {}, lines |-> <<>>, regions |-> <<>>]))

ConvertOptimized(s, scale) ==
    ConvertOptimizedOver(s, scale, ColorGrid(s), SpecialBlocks(s), ScanOrder(s))

----------------------------------------------------------------------------
(* NBT trees.  A tag is an integer, a byte array or a compound; a compound  *)
(* keeps its (key, tag) pairs in the order of the file, as a dict does.     *)

TagInt(n)        == [kind |-> "int", int |-> n, bytes |-> <<>>, items |-> <<>>]
TagBytes(b)      == [kind |-> "bytes", int |-> 0, bytes |-> b, items |-> <<>>]
TagCompound(kvs) == [kind |-> "compound", int |-> 0, bytes |-> <<>>, items |-> kvs]

\* key in compound
HasKey(c, key) == \E k \in 1..Len(c.items) : c.items[k][1] = key

\* compound[key], for a key it holds
GetKey(c, key) == c.items[CHOOSE k \in 1..Len(c.items) : c.items[k][1] = key][2]

\* key.lower(), on the keys that occur in the trees used here
Lower(key) ==
    CASE key = "Palette" -> "palette"
      [] key = "PALETTE" -> "palette"
      [] key = "Width" -> "width"
      [] key = "Height" -> "height"
      [] key = "Length" -> "length"
      [] key = "Blocks" -> "blocks"
      [] key = "BlockData" -> "blockdata"
      [] key = "Data" -> "data"
      [] key = "Schematic" -> "schematic"
      [] OTHER -> key

\* the dimensions given as -1
Minus(dims) == { d \in 1..3 : dims[d] = -1 }

\* the product of the dimensions beside the one that is inferred
Known(dims, minus) ==
    IF 1 \in minus THEN dims[2] * dims[3]
    ELSE IF 2 \in minus THEN dims[1] * dims[3]
    ELSE dims[1] * dims[2]

\* numpy accepts the new shape for n elements
ReshapeOk(n, dims, minus, known) ==
    /\ \A d \in 1..3 : dims[d] >= -1
    /\ Cardinality(minus) <= 1
    /\ IF minus = {} THEN dims[1] * dims[2] * dims[3] = n
       ELSE known # 0 /\ n % known = 0

\* the shape of the result, the dimension given as -1 inferred
Resolved(n, dims, minus, known) ==
    [d \in 1..3 |-> IF d \in minus THEN n \div known ELSE dims[d]]

\* the array of the shape, filled from the flat one in C order
Shaped(flat, shape) ==
    [y \in 0..(shape[1] - 1) |-> [z \in 0..(shape[2] - 1) |->
        [x \in 0..(shape[3] - 1) |-> flat[y * shape[2] * shape[3] + z * shape[3] + x + 1]]]]

ReshapeWith(flat, dims, minus, known) ==
    IF ReshapeOk(Len(flat), dims, minus, known)
    THEN [ok |-> TRUE, arr |-> Shaped(flat, Resolved(Len(flat), dims, minus, known))]
    ELSE [ok |-> FALSE, arr |-> <<>>]

\* numpy's reshape((height, length, width)) of a flat array: it fails unless the
\* sizes agree, and one dimension given as -1 is inferred from the others
Reshape(flat, height, length, width) ==
    ReshapeWith(flat, << height, length, width >>, Minus(<< height, length, width >>),
                Known(<< height, length, width >>, Minus(<< height, length, width >>)))

\* the three dimensions are there and are integers
HasDimensions(root) ==
    \A key \in {"Width", "Height", "Length"} :
        HasKey(root, key) /\ GetKey(root, key).kind = "int"

\* the dictionary _load_schematic_format returns once Blocks is reshaped
LegacyOf(width, height, length, has_data, data, shaped) ==
    IF ~ shaped.ok THEN [ok |-> FALSE, value |-> NoSchematic]
    ELSE [ok |-> TRUE,
          value |-> [format |-> "schematic", width |-> width, height |-> height,
                     length |-> length, blocks |-> shaped.arr,
                     has_data |-> has_data, data |-> data,
                     has_block_names |-> FALSE, block_names |-> <<>>]]

\* _load_schematic_format; ok = FALSE when an exception leaves it
LoadSchematicFormat(nbt_file) ==
    IF ~ HasDimensions(nbt_file) \/ ~ HasKey(nbt_file, "Blocks")
       \/ (HasKey(nbt_file, "Blocks") /\ GetKey(nbt_file, "Blocks").kind # "bytes")
    THEN [ok |-> FALSE, value |-> NoSchematic]
    ELSE LegacyOf(GetKey(nbt_file, "Width").int, GetKey(nbt_file, "Height").int,
                  GetKey(nbt_file, "Length").int, HasKey(nbt_file, "Data"),
                  IF HasKey(nbt_file, "Data")
                  THEN UnsignedBytes(GetKey(nbt_file, "Data").bytes) ELSE <<>>,
                  Reshape(UnsignedBytes(GetKey(nbt_file, "Blocks").bytes),
                          GetKey(nbt_file, "Height").int, GetKey(nbt_file, "Length").int,
                          GetKey(nbt_file, "Width").int))

AirName == << "minecraft:", "air" >>

\* the lookup, were a missing index resolved to stone
IndexToBlockStoneDefault(palette, idx) ==
    IF \E k \in 1..Len(palette.items) : palette.items[k][2].int = idx
    THEN palette.items[CHOOSE k \in 1..Len(palette.items) :
                           /\ palette.items[k][2].int = idx
                           /\ \A j \in (k + 1)..Len(palette.items) :
                                 palette.items[j][2].int # idx][1]
    ELSE << "minecraft:", "stone" >>

\* index_to_block.get(idx, "minecraft:air"), index_to_block being filled from
\* palette.items() in order, a later name replacing an earlier one of the same index
IndexToBlock(palette, idx) ==
    IF \E k \in 1..Len(palette.items) : palette.items[k][2].int = idx
    THEN palette.items[CHOOSE k \in 1..Len(palette.items) :
                           /\ palette.items[k][2].int = idx
                           /\ \A j \in (k + 1)..Len(palette.items) :
                                 palette.items[j][2].int # idx][1]
    ELSE AirName

\* the search, were an empty palette taken when none is found
FindPaletteEmptyDefault(root) ==
    LET blocks_compound == HasKey(root, "Blocks") /\ GetKey(root, "Blocks").kind = "compound"
        lower == { k \in 1..Len(root.items) : Lower(root.items[k][1]) = "palette" }
    IN  IF blocks_compound /\ HasKey(GetKey(root, "Blocks"), "Palette")
        THEN [found |-> TRUE, from |-> "Blocks", tag |-> GetKey(GetKey(root, "Blocks"), "Palette")]
        ELSE IF HasKey(root, "Palette")
        THEN [found |-> TRUE, from |-> "root", tag |-> GetKey(root, "Palette")]
        ELSE IF lower # {}
        THEN [found |-> TRUE, from |-> "lower",
              tag |-> root.items[CHOOSE k \in lower : \A j \in lower : k <= j][2]]
        ELSE [found |-> TRUE, from |-> "none", tag |-> [kind |-> "compound", int |-> 0,
                                                        bytes |-> <<>>, items |-> <<>>]]

\* the palette the code settles on: the one of Blocks, else the one of the root,
\* else the first root key that is "palette" in lower case
FindPalette(root) ==
    LET blocks_compound == HasKey(root, "Blocks") /\ GetKey(root, "Blocks").kind = "compound"
        lower == { k \in 1..Len(root.items) : Lower(root.items[k][1]) = "palette" }
    IN  IF blocks_compound /\ HasKey(GetKey(root, "Blocks"), "Palette")
        THEN [found |-> TRUE, from |-> "Blocks", tag |-> GetKey(GetKey(root, "Blocks"), "Palette")]
        ELSE IF HasKey(root, "Palette")
        THEN [found |-> TRUE, from |-> "root", tag |-> GetKey(root, "Palette")]
        ELSE IF lower # {}
        THEN [found |-> TRUE, from |-> "lower",
              tag |-> root.items[CHOOSE k \in lower : \A j \in lower : k <= j][2]]
        ELSE [found |-> FALSE, from |-> "none", tag |-> TagCompound(<<>>)]

\* the index data the code settles on: Data of Blocks, else BlockData of the root
FindBlockData(root) ==
    LET blocks_compound == HasKey(root, "Blocks") /\ GetKey(root, "Blocks").kind = "compound"
    IN  IF blocks_compound /\ HasKey(GetKey(root, "Blocks"), "Data")
        THEN [found |-> TRUE, from |-> "Blocks", tag |-> GetKey(GetKey(root, "Blocks"), "Data")]
        ELSE IF HasKey(root, "BlockData")
        THEN [found |-> TRUE, from |-> "root", tag |-> GetKey(root, "BlockData")]
        ELSE [found |-> FALSE, from |-> "none", tag |-> TagBytes(<<>>)]

\* the dictionary _load_schem_format returns once the ids are reshaped
SchemOf(width, height, length, block_names, shaped) ==
    IF ~ shaped.ok THEN [ok |-> FALSE, value |-> NoSchematic]
    ELSE [ok |-> TRUE,
          value |-> [format |-> "schem", width |-> width, height |-> height,
                     length |-> length, blocks |-> shaped.arr,
                     has_data |-> FALSE, data |-> <<>>,
                     has_block_names |-> TRUE, block_names |-> block_names]]

\* the ids of the names, the reshape and the dictionary
SchemFromNames(width, height, length, block_names) ==
    SchemOf(width, height, length, block_names,
            Reshape([k \in 1..Len(block_names) |-> BlockNameToId(block_names[k])],
                    height, length, width))

\* the loop that turns the decoded indices into names and ids, and the reshape
SchemFromIndices(width, height, length, palette, block_indices) ==
    SchemFromNames(width, height, length,
                   [k \in 1..Len(block_indices) |-> IndexToBlock(palette, block_indices[k])])

\* _load_schem_format past the search of palette and index data
LoadSchemWith(width, height, length, palette, block_data) ==
    IF ~ palette.found THEN [ok |-> FALSE, value |-> NoSchematic]
    ELSE IF ~ block_data.found THEN [ok |-> FALSE, value |-> NoSchematic]
    ELSE IF palette.tag.kind # "compound" \/ block_data.tag.kind # "bytes"
    THEN [ok |-> FALSE, value |-> NoSchematic]
    ELSE SchemFromIndices(width, height, length, palette.tag,
                          DecodeVarintArray(block_data.tag.bytes, width * height * length))

\* _load_schem_format past the choice of the root
LoadSchemRoot(root) ==
    IF ~ HasDimensions(root) THEN [ok |-> FALSE, value |-> NoSchematic]
    ELSE LoadSchemWith(GetKey(root, "Width").int, GetKey(root, "Height").int,
                       GetKey(root, "Length").int, FindPalette(root), FindBlockData(root))

\* _load_schem_format; ok = FALSE when an exception leaves it
LoadSchemFormat(nbt_file) ==
    LoadSchemRoot(IF HasKey(nbt_file, "Schematic") THEN GetKey(nbt_file, "Schematic")
                  ELSE nbt_file)

\* the result of load_schematic: None when the file is missing or the loader raised
Loaded(exists, loaded) == IF exists /\ loaded.ok THEN loaded.value ELSE NoSchematic

\* load_schematic: the format by the extension, None on any exception
LoadSchematic(f) ==
    Loaded(f.exists, IF f.ext = ".schem" THEN LoadSchemFormat(f.tree)
                     ELSE LoadSchematicFormat(f.tree))

----------------------------------------------------------------------------
(* convert_to_ldraw, save_ldraw_file, convert_file *)

NoLdraw ==
    [status |-> "none", optimize |-> FALSE, scale |-> 1, header |-> <<>>,
     lines |-> <<>>, regions |-> <<>>]

\* the header lines, the blank line included
Header(optimize, scale) ==
    << "0 Jonathan Rothberg's MineCraft to LEGO converter",
       "0 Name: Converted from Minecraft",
       "0 Author: Jonathan Rothberg" >>
    \o (IF optimize THEN << "0 Optimized: Yes (merged bricks)" >> ELSE <<>>)
    \o (IF scale > 1 THEN << "0 Scale: 2x (each MC block = 2 studs)" >> ELSE <<>>)
    \o << "" >>

\* the text convert_to_ldraw returns: the header and the lines of the body
LdrawOf(optimize, scale, body) ==
    [status |-> "ok", optimize |-> optimize, scale |-> scale,
     header |-> Header(optimize, scale), lines |-> body.lines, regions |-> body.regions]

\* convert_to_ldraw; status "raised" when numpy refuses to build color_grid
\* for a negative dimension
ConvertToLdraw(s, optimize, scale) ==
    IF optimize /\ (s.width < 0 \/ s.height < 0 \/ s.length < 0)
    THEN [NoLdraw EXCEPT !.status = "raised", !.optimize = optimize, !.scale = scale]
    ELSE LdrawOf(optimize, scale,
                 IF optimize THEN ConvertOptimized(s, scale) ELSE ConvertStandard(s, scale))

----------------------------------------------------------------------------
(* The attributes a converter sets on itself while converting *)

\* a new converter: hasattr is False for the three attributes; the debug
\* counts start at 0 when first set
NoCounters ==
    [stair_debug |-> 0, slab_debug |-> 0,
     has_special_counts |-> FALSE, stair |-> 0, slab |-> 0, carpet |-> 0]

\* the branch of _get_special_part_info a name takes
StairNamed(block_name) ==
    HasSubstring(ParseBlockState(block_name).base, "stairs")
    \/ HasSubstring(ParseBlockState(block_name).base, "stair")

SlabNamed(block_name) ==
    ~ StairNamed(block_name) /\ HasSubstring(ParseBlockState(block_name).base, "slab")

\* the cells for which the first pass of a conversion calls
\* _get_special_part_info: a name was read and the cell was not passed over
CalledCells(s) ==
    { c \in Cells(s) : /\ CellColor(s, c[1], c[2], c[3]).named
                       /\ CellColor(s, c[1], c[2], c[3]).block_name # <<>> }

\* the calls of the first pass that take the stair branch, the slab branch
FirstPassStairs(s) ==
    Cardinality({ c \in CalledCells(s) : StairNamed(CellColor(s, c[1], c[2], c[3]).block_name) })

FirstPassSlabs(s) ==
    Cardinality({ c \in CalledCells(s) : SlabNamed(CellColor(s, c[1], c[2], c[3]).block_name) })

\* the calls of the special pass of _convert_optimized: one for each special
\* part it emits
SpecialPassCalls(converted, kind) ==
    IF converted.optimize
    THEN Cardinality({ k \in 1..Len(converted.regions) : converted.regions[k].kind = kind })
    ELSE 0

\* "if self._stair_debug_count < 5: print(...); self._stair_debug_count += 1",
\* after a number of calls
DebugCountAfter(count, calls) == IF count + calls > 5 THEN 5 ELSE count + calls

\* the cells _convert_standard counts in _special_counts under a type
SpecialCount(s, type) ==
    Cardinality({ c \in CalledCells(s) :
                    GetSpecialPartInfo(CellColor(s, c[1], c[2], c[3]).block_name).type = type })

\* the number _convert_standard adds to a count; _convert_optimized adds none
CountedBy(s, converted, type) ==
    IF converted.optimize THEN 0 ELSE SpecialCount(s, type)

\* the attributes after convert_to_ldraw returned; a conversion that raises
\* does so before the first cell
CountersAfter(c, s, converted) ==
    IF converted.status # "ok" THEN c
    ELSE [stair_debug |-> DebugCountAfter(c.stair_debug,
                              FirstPassStairs(s) + SpecialPassCalls(converted, "stair")),
          slab_debug  |-> DebugCountAfter(c.slab_debug,
                              FirstPassSlabs(s) + SpecialPassCalls(converted, "slab")),
          has_special_counts |->
              c.has_special_counts
              \/ CountedBy(s, converted, "stair") + CountedBy(s, converted, "slab")
                 + CountedBy(s, converted, "carpet") > 0,
          stair  |-> c.stair + CountedBy(s, converted, "stair"),
          slab   |-> c.slab + CountedBy(s, converted, "slab"),
          carpet |-> c.carpet + CountedBy(s, converted, "carpet")]

\* a converter is followed from one conversion to the next while its special
\* counts are within MaxCount
WithinMaxCount(c) ==
    c.stair <= MaxCount /\ c.slab <= MaxCount /\ c.carpet <= MaxCount

\* a variant that writes the counts kept on the converter into the header
ConvertToLdrawOnWithCounts(c, s, optimize, scale) ==
    [ConvertToLdraw(s, optimize, scale) EXCEPT
        !.header = Append(@, << "0 Special parts so far:", c.stair, c.slab, c.carpet >>)]

\* convert_to_ldraw on a converter whose attributes are c: they are read by
\* the hasattr tests, the tests of the debug prints and the summary print,
\* none of which writes to ldraw_lines
ConvertToLdrawOn(c, s, optimize, scale) == ConvertToLdraw(s, optimize, scale)

NoSaved == [written |-> FALSE, content |-> NoLdraw]

\* save_ldraw_file: the file after the call; an exception of open or write is
\* caught and printed
SaveLdrawFile(f, old, ldraw_content) ==
    IF f.out_writable THEN [written |-> TRUE, content |-> ldraw_content] ELSE old

NoFile ==
    [exists |-> FALSE, ext |-> ".schem", tree |-> TagCompound(<<>>), out_writable |-> TRUE]

Scales == {1, 2}

----------------------------------------------------------------------------
(* The operations *)

\* load_schematic(filepath)
LoadSchematicCall ==
    /\ file.exists
    /\ schematic' = LoadSchematic(file)
    /\ UNCHANGED << vm, file, ldraw, saved, ret, counters >>

\* convert_to_ldraw(schematic, optimize, scale), called once on a loaded
\* schematic, as convert_file and the interactive front end call it
ConvertToLdrawCall ==
    /\ schematic.format # "none"
    /\ ldraw.status = "none"
    /\ \E optimize \in BOOLEAN, scale \in Scales :
          /\ ldraw' = ConvertToLdrawOn(counters, schematic, optimize, scale)
          /\ counters' = CountersAfter(counters, schematic,
                                       ConvertToLdrawOn(counters, schematic, optimize, scale))
    /\ UNCHANGED << vm, file, schematic, saved, ret >>

\* save_ldraw_file(ldraw_content, output_path)
SaveLdrawFileCall ==
    /\ ldraw.status = "ok"
    /\ saved' = SaveLdrawFile(file, saved, ldraw)
    /\ UNCHANGED << vm, file, schematic, ldraw, ret, counters >>

\* convert_file past the conversion, which left the converter's attributes
\* as after: the save and the return
ConvertFileCounted(loaded, converted, after) ==
    /\ WithinMaxCount(counters)
    /\ IF converted.status = "raised"
       THEN /\ schematic' = loaded
            /\ ldraw' = converted
            /\ ret' = "raised"
            /\ counters' = after
            /\ UNCHANGED << vm, file, saved >>
       ELSE /\ schematic' = loaded
            /\ ldraw' = converted
            /\ saved' = SaveLdrawFile(file, saved, converted)
            /\ ret' = "True"
            /\ counters' = after
            /\ UNCHANGED << vm, file >>

ConvertFileSave(loaded, converted) ==
    ConvertFileCounted(loaded, converted, CountersAfter(counters, loaded, converted))

\* convert_file past load_schematic
ConvertFileLoaded(loaded, optimize, scale) ==
    IF loaded.format = "none"
    THEN /\ schematic' = loaded
         /\ ret' = "False"
         /\ UNCHANGED << vm, file, ldraw, saved, counters >>
    ELSE ConvertFileSave(loaded, ConvertToLdrawOn(counters, loaded, optimize, scale))

\* convert_file(input_path, output_path, optimize, scale)
ConvertFileCall ==
    \E optimize \in BOOLEAN, scale \in Scales :
        IF ~ file.exists
        THEN /\ ret' = "False"
             /\ UNCHANGED << vm, file, schematic, ldraw, saved, counters >>
        ELSE ConvertFileLoaded(LoadSchematic(file), optimize, scale)

\* one pass of the outer loop test of _decode_varint_array
VarintOuterStep ==
    /\ vm.pc = "outer"
    /\ vm' = VarintOuter(vm)
    /\ UNCHANGED << file, schematic, ldraw, saved, ret, counters >>

\* one pass of the inner loop of _decode_varint_array
VarintInnerStep ==
    /\ vm.pc = "inner"
    /\ vm' = VarintInner(vm)
    /\ UNCHANGED << file, schematic, ldraw, saved, ret, counters >>

----------------------------------------------------------------------------
(* The inputs *)

\* the writer's side of the varint format: 7 bits a byte, least significant
\* group first, the top bit set on every byte but the last of a value
RECURSIVE EncodeVarint(_)
EncodeVarint(v) ==
    IF v < 128 THEN << v >> ELSE << (v % 128) + 128 >> \o EncodeVarint(v \div 128)

RECURSIVE EncodeVarintArray(_)
EncodeVarintArray(values) ==
    IF values = <<>> THEN <<>>
    ELSE EncodeVarint(Head(values)) \o EncodeVarintArray(Tail(values))

\* a byte as a signed 8-bit store holds it
AsSigned(b) == IF b >= 128 THEN b - 256 ELSE b

SignedBytes(s) == [k \in 1..Len(s) |-> AsSigned(s[k])]

VarintValues == { 0, 127, 128, 300, 2 ^ 28 - 1 }

ValueSeqs == SeqsUpTo(VarintValues, MaxValues)

\* whole and truncated streams, with unsigned and with signed bytes
VarintStreams ==
    UNION { Prefixes(EncodeVarintArray(values)) \cup
            Prefixes(SignedBytes(EncodeVarintArray(values))) : values \in ValueSeqs }

StoneName       == << "minecraft:", "stone" >>
OakPlanksName   == << "minecraft:", "oak", "_", "planks" >>
TorchName       == << "minecraft:", "torch" >>
StoneStairsName == << "minecraft:", "stone", "_", "stairs",
                      "[", "facing", "=", "east", ",", "half", "=", "top", "]" >>

WallTorchName     == << "minecraft:", "wall", "_", "torch", "[", "facing", "=", "north", "]" >>
FireName          == << "minecraft:", "fire" >>
CarpetName        == << "minecraft:", "white", "_", "carpet" >>
OakStairsName     == << "minecraft:", "oak", "_", "stairs" >>
OakStairsEastTop  == << "minecraft:", "oak", "_", "stairs",
                        "[", "facing", "=", "east", ",", "half", "=", "top", "]" >>
OakStairsWest     == << "minecraft:", "oak", "_", "stairs",
                        "[", "facing", "=", "west", ",", "half", "=", "bottom", "]" >>
OakStairsSouthTop == << "minecraft:", "oak", "_", "stairs",
                        "[", "half", "=", "top", ",", "facing", "=", "south", "]" >>
SlabBottomName    == << "minecraft:", "stone", "_", "slab", "[", "type", "=", "bottom", "]" >>
SlabTopName       == << "minecraft:", "stone", "_", "slab", "[", "type", "=", "top", "]" >>
SlabDoubleName    == << "minecraft:", "stone", "_", "slab", "[", "type", "=", "double", "]" >>
SlabPlainName     == << "minecraft:", "oak", "_", "slab" >>
\* a name that holds both "stairs" and "slab"
StairsSlabName    == << "minecraft:", "stone", "_", "stairs", "_", "slab",
                        "[", "type", "=", "double", "]" >>

\* the names of the grids of one and two voxels
ShapeNames ==
    { AirName, StoneName, OakPlanksName, TorchName, WallTorchName, FireName, CarpetName,
      OakStairsName, OakStairsEastTop, OakStairsWest, OakStairsSouthTop,
      SlabBottomName, SlabTopName, SlabDoubleName, SlabPlainName, StairsSlabName }

\* (width, height, length) of the grids of one and two voxels
ShapeDims == { << 1, 1, 1 >>, << 2, 1, 1 >>, << 1, 2, 1 >>, << 1, 1, 2 >> }

\* the grids of one and two voxels over all the names
ShapeGrids ==
    UNION { { SchemFromNames(d[1], d[2], d[3], names).value :
                names \in [1..(d[1] * d[2] * d[3]) -> ShapeNames] } : d \in ShapeDims }

\* one row along X of stone and oak planks in every pattern, and the grids of
\* two rows of one of them
RowGrids ==
    UNION { { SchemFromNames(n, 1, 1, names).value :
                names \in [1..n -> { StoneName, OakPlanksName }] } : n \in 1..MaxRow }
    \cup { SchemFromNames(n, 1, 2, [k \in 1..(2 * n) |-> name]).value :
             n \in 1..MaxRow, name \in { StoneName, OakPlanksName } }

\* names no table holds: without and with a state
UnknownName    == << "minecraft:", "mystery", "_", "block" >>
UnknownLitName == << "minecraft:", "mystery", "_", "block", "[", "lit", "=", "true", "]" >>

\* the grids of one and two voxels over air, stone, fire and the unknown names
UnknownGrids ==
    UNION { { SchemFromNames(d[1], d[2], d[3], names).value :
                names \in [1..(d[1] * d[2] * d[3]) ->
                              { AirName, StoneName, FireName, UnknownName, UnknownLitName }] } :
            d \in ShapeDims }

\* the names a grid drawn directly is made of
GridNames == { AirName, StoneName, OakPlanksName, TorchName, StoneStairsName }

\* (width, height, length) of the grids drawn directly
GridDims ==
    { d \in (1..MaxCells) \X (1..MaxCells) \X (1..MaxCells) : d[1] * d[2] * d[3] <= MaxCells }

\* the grids _load_schem_format returns for the names above
Grids ==
    UNION { { SchemFromNames(d[1], d[2], d[3], names).value :
                names \in [1..(d[1] * d[2] * d[3]) -> GridNames] } : d \in GridDims }

\* (Width, Height, Length) of the input files
FileDims ==
    { << 1, 1, 1 >>, << 2, 1, 1 >>, << 2, 1, 2 >>, << 1, 2, 2 >>,
      << 0, 1, 1 >>, << -1, 1, 1 >>, << -1, 1, 2 >> }

DimItems(d) ==
    << << "Width", TagInt(d[1]) >>, << "Height", TagInt(d[2]) >>, << "Length", TagInt(d[3]) >> >>

\* index 0 and 1 are named, every other index is not
PaletteRoot   == TagCompound(<< << StoneName, TagInt(0) >>, << OakPlanksName, TagInt(1) >> >>)
PaletteBlocks == TagCompound(<< << StoneStairsName, TagInt(0) >>, << AirName, TagInt(1) >>,
                                << TorchName, TagInt(2) >> >>)
PaletteLower  == TagCompound(<< << OakPlanksName, TagInt(0) >>, << StoneName, TagInt(1) >> >>)

\* index streams: 0, the unnamed index 2, and -127, the byte 0x81 as a signed
\* store holds it (the low bits 1, more bytes follow)
IndexStreams == SeqsUpTo({ 0, 2, -127 }, MaxBytes)

\* legacy Blocks arrays: air, wool, and -1, the id 255 as a signed store holds it
LegacyStreams == SeqsUpTo({ 0, 35, -1 }, MaxBytes)

OptionalItem(present, key, tag) == IF present THEN << << key, tag >> >> ELSE <<>>

\* modern trees in the plain root layout, over all dimensions and streams
SchemTreesByData ==
    { TagCompound(DimItems(d) \o << << "Palette", PaletteRoot >>,
                                    << "BlockData", TagBytes(stream) >> >>) :
        d \in FileDims, stream \in IndexStreams }

\* modern trees of two cells over all layouts: Blocks absent or holding any of
\* Palette and Data, the root holding any of Palette, BlockData and "palette"
SchemTreesByLayout ==
    { TagCompound(
          DimItems(<< 2, 1, 1 >>)
          \o OptionalItem(lay[1], "Blocks",
                 TagCompound(OptionalItem(lay[2], "Palette", PaletteBlocks)
                             \o OptionalItem(lay[3], "Data", TagBytes(<< 0, 2 >>))))
          \o OptionalItem(lay[4], "Palette", PaletteRoot)
          \o OptionalItem(lay[5], "BlockData", TagBytes(rootdata))
          \o OptionalItem(lay[6], "palette", PaletteLower)) :
        lay \in [1..6 -> BOOLEAN], rootdata \in { << 0, -127, 0 >>, << 0, 0 >> } }

\* legacy trees: Data absent, or one byte long
LegacyTrees ==
    { TagCompound(DimItems(d) \o << << "Blocks", TagBytes(stream) >> >>
                  \o OptionalItem(data, "Data", TagBytes(<< 4 >>))) :
        d \in FileDims, stream \in LegacyStreams, data \in BOOLEAN }

\* legacy ids: the ids coloured by their data value, some ids of the id table,
\* ids the table does not hold, and air
LegacyIds == ColorDataBlocks \cup { 0, 1, 2, 36, 254, 255 }

\* data values: 0..MaxData, and 255, the byte -1 of a signed store
LegacyDataValues == (0..MaxData) \cup { 255 }

\* legacy trees of one voxel, over the ids and data values, Data present or not
LegacyVoxelTrees ==
    { TagCompound(DimItems(<< 1, 1, 1 >>) \o << << "Blocks", TagBytes(<< AsSigned(id) >>) >> >>
                  \o << << "Data", TagBytes(<< AsSigned(dv) >>) >> >>) :
        id \in LegacyIds, dv \in LegacyDataValues }
    \cup { TagCompound(DimItems(<< 1, 1, 1 >>)
                       \o << << "Blocks", TagBytes(<< AsSigned(id) >>) >> >>) :
             id \in LegacyIds }

\* legacy ids: air, stone, planks, the stone slab 44 and the oak stairs 53 of
\* their colours, and the ids 36 and 254 the id table does not hold
IdGridIds == { 0, 1, 5, 36, 44, 53, 254 }

\* the Data bytes of a legacy tree: absent, or one value for every voxel
IdGridData(cells) ==
    { <<>> } \cup { << << "Data", TagBytes([k \in 1..cells |-> dv]) >> >> : dv \in { 0, 8 } }

\* the legacy grids of one and two voxels _load_schematic_format returns
IdGrids ==
    UNION { { LoadSchematicFormat(
                  TagCompound(DimItems(d)
                              \o << << "Blocks", TagBytes([k \in 1..Len(ids) |-> AsSigned(ids[k])]) >> >>
                              \o data)).value :
                ids \in [1..(d[1] * d[2] * d[3]) -> IdGridIds],
                data \in IdGridData(d[1] * d[2] * d[3]) } :
            d \in ShapeDims }

LegacyVoxelFiles ==
    { [exists |-> TRUE, ext |-> ".schematic", tree |-> t, out_writable |-> TRUE] :
        t \in LegacyVoxelTrees }

Files ==
    { [exists |-> TRUE, ext |-> ".schem", tree |-> t, out_writable |-> w] :
        t \in SchemTreesByData \cup SchemTreesByLayout, w \in BOOLEAN }
    \cup { [exists |-> TRUE, ext |-> ".schematic", tree |-> t, out_writable |-> TRUE] :
             t \in LegacyTrees }
    \cup { NoFile }

----------------------------------------------------------------------------
(* The specifications *)

\* conversions of a loaded grid
Init ==
    /\ vm = VarintInit(<<>>, 0)
    /\ file = NoFile
    /\ schematic \in Grids
    /\ ldraw = NoLdraw
    /\ saved = NoSaved
    /\ ret = "none"
    /\ counters = NoCounters

Next == ConvertToLdrawCall

Spec == Init /\ [][Next]_vars

\* loading and converting an input file
InitLoad ==
    /\ vm = VarintInit(<<>>, 0)
    /\ file \in Files
    /\ schematic = NoSchematic
    /\ ldraw = NoLdraw
    /\ saved = NoSaved
    /\ ret = "none"
    /\ counters = NoCounters

NextLoad == LoadSchematicCall \/ ConvertFileCall

SpecLoad == InitLoad /\ [][NextLoad]_vars

\* conversions of the grids of one and two voxels and of the rows
InitShapes ==
    /\ vm = VarintInit(<<>>, 0)
    /\ file = NoFile
    /\ schematic \in ShapeGrids \cup RowGrids
    /\ ldraw = NoLdraw
    /\ saved = NoSaved
    /\ ret = "none"
    /\ counters = NoCounters

NextShapes == ConvertToLdrawCall

SpecShapes == InitShapes /\ [][NextShapes]_vars

\* conversions of the legacy grids and of the grids with unknown names
InitIds ==
    /\ vm = VarintInit(<<>>, 0)
    /\ file = NoFile
    /\ schematic \in IdGrids \cup UnknownGrids
    /\ ldraw = NoLdraw
    /\ saved = NoSaved
    /\ ret = "none"
    /\ counters = NoCounters

NextIds == ConvertToLdrawCall

SpecIds == InitIds /\ [][NextIds]_vars

\* the grids one converter converts in turn: one voxel of a solid block, a
\* stair or a slab, and two voxels along X, solid or a stair beside a solid
RepeatGrids ==
    { SchemFromNames(1, 1, 1, << name >>).value :
        name \in { StoneName, OakStairsName, SlabTopName } }
    \cup { SchemFromNames(2, 1, 1, << name, StoneName >>).value :
             name \in { StoneName, OakStairsName } }

\* convert_to_ldraw(schematic, optimize, scale) on one converter, grid after
\* grid
ConvertAgainCall ==
    \E g \in RepeatGrids, optimize \in BOOLEAN, scale \in Scales :
        /\ WithinMaxCount(counters)
        /\ schematic' = g
        /\ ldraw' = ConvertToLdrawOn(counters, g, optimize, scale)
        /\ counters' = CountersAfter(counters, g,
                                     ConvertToLdrawOn(counters, g, optimize, scale))
        /\ UNCHANGED << vm, file, saved, ret >>

\* one converter converting grid after grid
InitRepeat ==
    /\ vm = VarintInit(<<>>, 0)
    /\ file = NoFile
    /\ schematic = NoSchematic
    /\ ldraw = NoLdraw
    /\ saved = NoSaved
    /\ ret = "none"
    /\ counters = NoCounters

NextRepeat == ConvertAgainCall

SpecRepeat == InitRepeat /\ [][NextRepeat]_vars

\* loading and converting a legacy file of one voxel
InitLegacy ==
    /\ vm = VarintInit(<<>>, 0)
    /\ file \in LegacyVoxelFiles
    /\ schematic = NoSchematic
    /\ ldraw = NoLdraw
    /\ saved = NoSaved
    /\ ret = "none"
    /\ counters = NoCounters

NextLegacy == LoadSchematicCall \/ ConvertFileCall

SpecLegacy == InitLegacy /\ [][NextLegacy]_vars

\* one call of _decode_varint_array, which runs without interruption
InitVarint ==
    /\ vm \in { VarintInit(data, expected) :
                  data \in VarintStreams, expected \in 0..(MaxValues + 1) }
    /\ file = NoFile
    /\ schematic = NoSchematic
    /\ ldraw = NoLdraw
    /\ saved = NoSaved
    /\ ret = "none"
    /\ counters = NoCounters

NextVarint == VarintOuterStep \/ VarintInnerStep

SpecVarint ==
    InitVarint /\ [][NextVarint]_vars /\ WF_vars(VarintOuterStep) /\ WF_vars(VarintInnerStep)

----------------------------------------------------------------------------
(* What the claims speak of *)

\* the cells a region stands for
Covered(r) ==
    { << r.y, r.z + dz, r.x + dx >> : dz \in 0..(r.z_len - 1), dx \in 0..(r.x_len - 1) }

\* the name stored for a cell of a named grid
NameAt(s, c) == s.block_names[DataIndex(s, c[1], c[2], c[3]) + 1]

\* the voxels that are neither air nor in the skip set
NonSkipped(s) ==
    { c \in Cells(s) :
        IF s.has_block_names
        THEN BaseName(NameAt(s, c)) # << "air" >> /\ BaseName(NameAt(s, c)) \notin SkipBlocks
        ELSE s.blocks[c[1]][c[2]][c[3]] # 0 }

\* the stair, non-double slab and carpet voxels among them
SpecialVoxels(s) ==
    { c \in NonSkipped(s) : s.has_block_names /\ IsSpecial(GetSpecialPartInfo(NameAt(s, c))) }

\* the regions of the last conversion that cover a cell
RegionsOver(c) == { k \in 1..Len(ldraw.regions) : c \in Covered(ldraw.regions[k]) }

Greedy == ldraw.status = "ok" /\ ldraw.optimize
Identity == ldraw.status = "ok" /\ ~ ldraw.optimize

----------------------------------------------------------------------------
(* C1: the regions of the greedy strategy, at scale 1 and at scale 2,       *)
(* partition the non-skipped voxels: each voxel that is neither air nor in  *)
(* the skip set lies in exactly one region, and no region holds an air or   *)
(* skip voxel.                                                              *)
C1_GreedyPartition ==
    Greedy =>
        /\ \A c \in NonSkipped(schematic) : Cardinality(RegionsOver(c)) = 1
        /\ \A k \in 1..Len(ldraw.regions) : Covered(ldraw.regions[k]) \subseteq NonSkipped(schematic)

\* a greedy conversion with a merged run, a special part and a voxel left out
C1_Witness ==
    /\ Greedy
    /\ \E k \in 1..Len(ldraw.regions) :
          ldraw.regions[k].kind = "merged" /\ ldraw.regions[k].x_len >= 2
    /\ \E k \in 1..Len(ldraw.regions) : ldraw.regions[k].kind = "stair"
    /\ \E c \in Cells(schematic) : c \notin NonSkipped(schematic)

(* C2: in the greedy strategy, at scale 1 and at scale 2, no merged brick   *)
(* holds a stair, slab or carpet voxel, and every such voxel is emitted by  *)
(* the last pass as a region of its own carrying its special part.          *)
C2_SpecialNeverMerged ==
    Greedy =>
        /\ \A k \in 1..Len(ldraw.regions) :
              ldraw.regions[k].kind = "merged" =>
                  Covered(ldraw.regions[k]) \cap SpecialVoxels(schematic) = {}
        /\ \A c \in SpecialVoxels(schematic) :
              \E k \in 1..Len(ldraw.regions) :
                  /\ ldraw.regions[k].kind \in {"stair", "slab", "carpet"}
                  /\ Covered(ldraw.regions[k]) = { c }

(* C3: with the identity strategy every non-skipped voxel becomes exactly   *)
(* one region of extent (1,1,1), none stands for an air or skip voxel, and  *)
(* at scale 1 the number of records is the number of non-skipped voxels.    *)
C3_IdentityOnePerVoxel ==
    Identity =>
        /\ \A k \in 1..Len(ldraw.regions) :
              ldraw.regions[k].x_len = 1 /\ ldraw.regions[k].z_len = 1
        /\ \A c \in NonSkipped(schematic) : Cardinality(RegionsOver(c)) = 1
        /\ \A k \in 1..Len(ldraw.regions) : Covered(ldraw.regions[k]) \subseteq NonSkipped(schematic)
        /\ Len(ldraw.regions) = Cardinality(NonSkipped(schematic))
        /\ ldraw.scale = 1 => Len(ldraw.lines) = Cardinality(NonSkipped(schematic))

\* an identity conversion at scale 1 of a grid with air, a skip voxel and two records
C3_Witness ==
    /\ Identity /\ ldraw.scale = 1
    /\ Len(ldraw.lines) = 2
    /\ \E c \in Cells(schematic) : NameAt(schematic, c) = AirName
    /\ \E c \in Cells(schematic) : NameAt(schematic, c) = TorchName

\* the stream ends inside a value: its last byte has the continuation bit set
EndsMidValue(data) == data # <<>> /\ ToUnsigned(data[Len(data)]) >= 128

\* the values that are whole in the stream: one for each byte without the bit
CompleteCount(data) == Cardinality({ k \in 1..Len(data) : ToUnsigned(data[k]) < 128 })

IsPrefix(p, s) == Len(p) <= Len(s) /\ SubSeq(s, 1, Len(p)) = p

Decoded == vm.pc = "done"

(* C4: decoding a stream that is cut inside a value returns only the values *)
(* that were whole before the cut: the partial last value is not appended.  *)
C4_PartialValueDropped ==
    (Decoded /\ EndsMidValue(vm.data)) =>
        /\ Len(vm.result) <= CompleteCount(vm.data)
        /\ \A values \in ValueSeqs :
              IsPrefix(UnsignedBytes(vm.data), EncodeVarintArray(values))
                  => IsPrefix(vm.result, values)

(* C5: for every sequence of values below 2^28, decoding its encoding with  *)
(* expected_count = len gives back the sequence, and so does decoding the   *)
(* same bytes held as signed values.                                        *)
C5_VarintRoundTrip ==
    Decoded =>
        \A values \in ValueSeqs :
            ( /\ vm.expected = Len(values)
              /\ \/ vm.data = EncodeVarintArray(values)
                 \/ vm.data = SignedBytes(EncodeVarintArray(values)) )
            => vm.result = values

\* the signed bytes of (300, 2^28 - 1) were decoded to these two values
C5_Witness ==
    /\ Decoded
    /\ vm.data = SignedBytes(EncodeVarintArray(<< 300, 2 ^ 28 - 1 >>))
    /\ \E k \in 1..Len(vm.data) : vm.data[k] < 0
    /\ vm.expected = 2
    /\ vm.result = << 300, 2 ^ 28 - 1 >>

(* C6: the decoder ends on every input, never holds more than               *)
(* expected_count values, reads no byte once it holds that many, and        *)
(* returns the empty list for an empty input or an expected_count of 0.     *)
C6_DecoderTerminatesBounded ==
    /\ <>Decoded
    /\ [](Len(vm.result) <= vm.expected)
    /\ []((vm.pc = "inner" /\ vm.i < Len(vm.data)) => Len(vm.result) < vm.expected)
    /\ []((Decoded /\ (vm.data = <<>> \/ vm.expected = 0)) => vm.result = <<>>)

\* the decoder ended with expected_count values and bytes left unread
C6_Witness ==
    /\ Decoded
    /\ vm.expected > 0
    /\ Len(vm.result) = vm.expected
    /\ vm.i < Len(vm.data)

\* the input is a modern file, and its root compound
Modern == file.exists /\ file.ext = ".schem"
Root == IF HasKey(file.tree, "Schematic") THEN GetKey(file.tree, "Schematic") ELSE file.tree

\* Blocks is a substructure of the root, and holds the key
BlocksHolds(key) ==
    /\ HasKey(Root, "Blocks")
    /\ GetKey(Root, "Blocks").kind = "compound"
    /\ HasKey(GetKey(Root, "Blocks"), key)

\* a root key that is "palette" without regard to case
LowerPaletteKeys == { k \in 1..Len(Root.items) : Lower(Root.items[k][1]) = "palette" }

(* C7: a modern grid is decoded from the Palette and Data of Blocks only    *)
(* when Blocks holds both; otherwise from Palette and BlockData of the      *)
(* root, a root key matching "palette" without regard to case being used    *)
(* only when neither gave a palette.  So with one of the two in Blocks and  *)
(* both at the root, palette and index data are those of the root.          *)
C7_PalettePriority ==
    ( /\ Modern
      /\ schematic.format = "schem"
      /\ \/ BlocksHolds("Palette") /\ BlocksHolds("Data")
         \/ HasKey(Root, "Palette") /\ HasKey(Root, "BlockData")
         \/ ~ BlocksHolds("Palette") /\ ~ BlocksHolds("Data") ) =>
        LET both    == BlocksHolds("Palette") /\ BlocksHolds("Data")
            width   == GetKey(Root, "Width").int
            height  == GetKey(Root, "Height").int
            length  == GetKey(Root, "Length").int
            has_palette == both \/ HasKey(Root, "Palette") \/ LowerPaletteKeys # {}
            has_data    == both \/ HasKey(Root, "BlockData")
            palette == IF both THEN GetKey(GetKey(Root, "Blocks"), "Palette")
                       ELSE IF HasKey(Root, "Palette") THEN GetKey(Root, "Palette")
                       ELSE Root.items[CHOOSE k \in LowerPaletteKeys :
                                           \A j \in LowerPaletteKeys : k <= j][2]
            data    == IF both THEN GetKey(GetKey(Root, "Blocks"), "Data")
                       ELSE GetKey(Root, "BlockData")
        IN  /\ has_palette
            /\ has_data
            /\ schematic.block_names =
                  [k \in 1..(width * height * length) |->
                      IndexToBlock(palette,
                          DecodeVarintArray(data.bytes, width * height * length)[k])]

\* no palette after all fallbacks, or no index data
NoPalette == ~ BlocksHolds("Palette") /\ ~ HasKey(Root, "Palette") /\ LowerPaletteKeys = {}
NoIndexData == ~ BlocksHolds("Data") /\ ~ HasKey(Root, "BlockData")

(* C8: for a modern input with no palette after all fallbacks, or with no   *)
(* index data, load_schematic yields no grid and convert_file returns False *)
(* with no conversion run and no output written; and whatever the input,    *)
(* an output that was written holds a conversion that ran to its end.       *)
C8_MissingPaletteOrDataFails ==
    /\ (Modern /\ (NoPalette \/ NoIndexData)) =>
          /\ schematic = NoSchematic
          /\ ldraw = NoLdraw
          /\ saved = NoSaved
          /\ ret \in { "none", "False" }
    /\ saved.written => saved.content.status = "ok"

\* convert_file returned False on an input with index data and no palette
C8_Witness ==
    /\ Modern
    /\ NoPalette
    /\ ~ NoIndexData
    /\ ret = "False"
    /\ schematic = NoSchematic

\* a modern file in the plain root layout, and the indices decoded from it
PlainLayout ==
    /\ Modern
    /\ ~ HasKey(Root, "Blocks")
    /\ HasKey(Root, "Palette")
    /\ HasKey(Root, "BlockData")

PlainIndices ==
    DecodeVarintArray(GetKey(Root, "BlockData").bytes,
        GetKey(Root, "Width").int * GetKey(Root, "Height").int * GetKey(Root, "Length").int)

\* the palette names no block for the index
Unnamed(idx) ==
    \A k \in 1..Len(GetKey(Root, "Palette").items) :
        GetKey(Root, "Palette").items[k][2].int # idx

\* the voxels of the loaded grid whose index the palette does not name
UnnamedVoxels ==
    { c \in Cells(schematic) :
        Unnamed(PlainIndices[DataIndex(schematic, c[1], c[2], c[3]) + 1]) }

(* C9: a decoded index that the palette does not name resolves to the air   *)
(* identity, and the voxel it fills gets no placement record, whichever     *)
(* the strategy and the scale.                                              *)
C9_UnnamedIndexIsAir ==
    (PlainLayout /\ schematic.format = "schem") =>
        /\ \A k \in 1..Len(PlainIndices) :
              Unnamed(PlainIndices[k]) => schematic.block_names[k] = AirName
        /\ \A c \in UnnamedVoxels : RegionsOver(c) = {}
        /\ ldraw.status = "ok" =>
              Len(ldraw.lines) <=
                  (IF ldraw.scale = 1 THEN 1 ELSE 8)
                      * Cardinality(Cells(schematic) \ UnnamedVoxels)

\* a converted grid with a voxel of an unnamed index beside a voxel that was placed
C9_Witness ==
    /\ PlainLayout
    /\ ret = "True"
    /\ ldraw.status = "ok"
    /\ UnnamedVoxels # {}
    /\ \E k \in 1..Len(PlainIndices) : PlainIndices[k] = 2
    /\ ldraw.regions # <<>>

\* the number of identities the three-dimensional array holds
StoredCount(s) ==
    IF DOMAIN s.blocks = {} THEN 0
    ELSE IF DOMAIN s.blocks[0] = {} THEN 0
    ELSE Cardinality(DOMAIN s.blocks) * Cardinality(DOMAIN s.blocks[0])
             * Cardinality(DOMAIN s.blocks[0][0])

\* the identities the input file gives: the bytes of Blocks in a legacy file,
\* the decoded indices in a modern one
InputCount ==
    IF file.ext = ".schematic" THEN Len(GetKey(file.tree, "Blocks").bytes)
    ELSE Len(schematic.block_names)

(* C10: a grid that load_schematic returned holds exactly                   *)
(* width*height*length identities, voxel (y, z, x) being the flat element   *)
(* y*length*width + z*width + x; an input with another number of            *)
(* identities yields no grid.                                               *)
C10_GridHoldsAllVoxels ==
    (file.exists /\ schematic.format # "none") =>
        /\ StoredCount(schematic) = schematic.width * schematic.height * schematic.length
        /\ InputCount = schematic.width * schematic.height * schematic.length
        /\ \A y \in DOMAIN schematic.blocks :
              \A z \in DOMAIN schematic.blocks[y] :
                 \A x \in DOMAIN schematic.blocks[y][z] :
                    LET k == y * schematic.length * schematic.width
                                 + z * schematic.width + x
                    IN  IF schematic.format = "schem"
                        THEN schematic.blocks[y][z][x] = BlockNameToId(schematic.block_names[k + 1])
                        ELSE schematic.blocks[y][z][x] =
                                 ToUnsigned(GetKey(file.tree, "Blocks").bytes[k + 1])

(* C11: a modern input whose index stream gives fewer than                  *)
(* width*height*length indices is still loaded: once convert_file has       *)
(* called load_schematic on it, a grid was returned.                        *)
C11_TruncatedStreamLoads ==
    ( /\ PlainLayout
      /\ ret # "none"
      /\ Len(PlainIndices) < GetKey(Root, "Width").int * GetKey(Root, "Height").int
                                 * GetKey(Root, "Length").int )
        => schematic.format = "schem"

\* the legacy voxel of a one-voxel file: its id and its data value
LegacyVoxelId == ToUnsigned(GetKey(file.tree, "Blocks").bytes[1])
LegacyVoxelData ==
    IF HasKey(file.tree, "Data") THEN ToUnsigned(GetKey(file.tree, "Data").bytes[1]) ELSE 0

\* a one-voxel legacy file was converted
LegacyConverted ==
    /\ file.ext = ".schematic"
    /\ Len(GetKey(file.tree, "Blocks").bytes) = 1
    /\ ldraw.status = "ok"

(* C12: a legacy voxel whose id is one of 35, 95, 159, 160, 171, 251, 252   *)
(* and whose data value is in 0..15 gets the dye-table colour of the data   *)
(* value (id 35 with data 4 gets 14); any other id, or a data value outside *)
(* 0..15, gets the colour of the id table, 7 when the table lacks the id.   *)
C12_LegacyColor ==
    (LegacyConverted /\ LegacyVoxelId # 0) =>
        LET dye == << 15, 25, 13, 9, 14, 27, 13, 8, 7, 11, 5, 1, 6, 2, 4, 0 >>
            expected ==
                IF LegacyVoxelId \in {35, 95, 159, 160, 171, 251, 252}
                   /\ LegacyVoxelData \in 0..15
                THEN dye[LegacyVoxelData + 1]
                ELSE IF LegacyVoxelId \in {36, 253, 254} THEN 7
                ELSE IF LegacyVoxelId \in {35, 159, 171, 251, 252} THEN 15
                ELSE IF LegacyVoxelId \in {95, 160} THEN 47
                ELSE IF LegacyVoxelId = 1 THEN 71
                ELSE IF LegacyVoxelId = 2 THEN 10
                ELSE IF LegacyVoxelId = 255 THEN 72
                ELSE BlockColors(LegacyVoxelId)
        IN  /\ ldraw.lines # <<>>
            /\ \A k \in 1..Len(ldraw.lines) : ldraw.lines[k].color = expected

\* wool of data value 4 was converted to a record of colour 14
C12_Witness ==
    /\ LegacyConverted
    /\ LegacyVoxelId = 35
    /\ LegacyVoxelData = 4
    /\ Len(ldraw.lines) = 1
    /\ ldraw.lines[1].color = 14

----------------------------------------------------------------------------
\* the voxels whose stored name is one of the given names
NamedAmong(s, names) == { c \in Cells(s) : s.has_block_names /\ NameAt(s, c) \in names }

\* the names of the skip set among the inputs: torch, wall_torch with a state, fire
SkipNames == { TorchName, WallTorchName, FireName }

(* C13: a named voxel whose base name, without namespace and bracketed      *)
(* state, is in the skip set gives no region and no record under both       *)
(* strategies and both scales, whatever its colour entry (fire has colour   *)
(* 25); a grid of skip and air voxels only gives zero records; a carpet     *)
(* voxel is not skipped and lies in a region that emitted a record.         *)
C13_SkipGivesNoRecord ==
    /\ GetColorFromBlockName(FireName) = 25
    /\ ldraw.status = "ok" =>
          /\ \A c \in NamedAmong(schematic, SkipNames) : RegionsOver(c) = {}
          /\ Cells(schematic) = NamedAmong(schematic, SkipNames \cup { AirName })
                => ldraw.lines = <<>>
          /\ \A c \in NamedAmong(schematic, { CarpetName }) :
                \E k \in RegionsOver(c) : ldraw.regions[k].n >= 1

\* a converted grid of a fire voxel and a carpet voxel: one record, the carpet's
C13_Witness ==
    /\ ldraw.status = "ok"
    /\ NamedAmong(schematic, { FireName }) # {}
    /\ NamedAmong(schematic, { CarpetName }) # {}
    /\ Len(ldraw.lines) = 1
    /\ ldraw.lines[1].color = 15

----------------------------------------------------------------------------
\* the shape the stated order of tests gives each name of the inputs
ShapeOfName(name) ==
    CASE name \in { OakStairsName, OakStairsEastTop, OakStairsWest, OakStairsSouthTop,
                    StoneStairsName, StairsSlabName } -> "stair"
      [] name \in { SlabBottomName, SlabTopName, SlabPlainName } -> "slab"
      [] name = CarpetName -> "carpet"
      [] OTHER -> "none"

\* the names of stairs whose state gives neither facing nor half
DefaultStairNames == { OakStairsName, StairsSlabName }

\* the name of the voxel a region of one cell stands for
RegionName(k) ==
    NameAt(schematic, << ldraw.regions[k].y, ldraw.regions[k].z, ldraw.regions[k].x >>)

(* C14: shape detection tests stair before slab before carpet. Under the    *)
(* identity strategy the region of a named voxel is a stair when its base   *)
(* name holds "stair", even when it also holds "slab" and its state has     *)
(* type=double; else a slab when it holds "slab" unless type=double, which  *)
(* is solid; else a carpet when it holds "carpet"; else not special. A      *)
(* stair without facing and half is written facing north (identity          *)
(* rotation) and half bottom (no vertical offset).                          *)
C14_StairBeforeSlabBeforeCarpet ==
    (Identity /\ schematic.has_block_names) =>
        \A k \in 1..Len(ldraw.regions) :
            /\ ldraw.regions[k].kind = ShapeOfName(RegionName(k))
            /\ (ldraw.scale = 1 /\ RegionName(k) \in DefaultStairNames) =>
                  /\ ldraw.lines[k].part = "54200"
                  /\ ldraw.lines[k].rotation = << 1, 0, 0, 0, 1, 0, 0, 0, 1 >>
                  /\ ldraw.lines[k].y = (0 - ldraw.regions[k].y) * 24

\* an identity conversion at scale 1 of the name holding both "stairs" and
\* "slab" next to a double slab: the first is a stair, the second is solid
C14_Witness ==
    /\ Identity /\ ldraw.scale = 1
    /\ \E k \in 1..Len(ldraw.regions) :
          RegionName(k) = StairsSlabName /\ ldraw.regions[k].kind = "stair"
    /\ \E k \in 1..Len(ldraw.regions) :
          RegionName(k) = SlabDoubleName /\ ldraw.regions[k].kind = "none"

----------------------------------------------------------------------------
\* the four cardinal facings
Facings == { <<"north">>, <<"east">>, <<"south">>, <<"west">> }

\* entry (i, j) of a matrix given as its nine entries, row by row
Entry(m, i, j) == m[3 * (i - 1) + j]

\* entry (i, j) of the product of a matrix with its transpose
TimesTranspose(m, i, j) ==
    Entry(m, i, 1) * Entry(m, j, 1) + Entry(m, i, 2) * Entry(m, j, 2)
        + Entry(m, i, 3) * Entry(m, j, 3)

Orthogonal(m) ==
    \A i \in 1..3, j \in 1..3 : TimesTranspose(m, i, j) = (IF i = j THEN 1 ELSE 0)

Determinant(m) ==
    Entry(m, 1, 1) * (Entry(m, 2, 2) * Entry(m, 3, 3) - Entry(m, 2, 3) * Entry(m, 3, 2))
    - Entry(m, 1, 2) * (Entry(m, 2, 1) * Entry(m, 3, 3) - Entry(m, 2, 3) * Entry(m, 3, 1))
    + Entry(m, 1, 3) * (Entry(m, 2, 1) * Entry(m, 3, 2) - Entry(m, 2, 2) * Entry(m, 3, 1))

\* rows 2 and 3 of a matrix negated
RowsTwoThreeNegated(m) ==
    << m[1], m[2], m[3], 0 - m[4], 0 - m[5], 0 - m[6], 0 - m[7], 0 - m[8], 0 - m[9] >>

(* C15: the rotation matrices of north, east, south and west are pairwise   *)
(* distinct, each is orthogonal with determinant 1, north is the identity;  *)
(* _flip_rotation_y negates rows 2 and 3, and applied twice to any of the   *)
(* four it returns the original matrix.                                     *)
C15_RotationsValid ==
    /\ \A f \in Facings, g \in Facings : f # g => Rotations(f) # Rotations(g)
    /\ \A f \in Facings : Orthogonal(Rotations(f)) /\ Determinant(Rotations(f)) = 1
    /\ Rotations(<<"north">>) = << 1, 0, 0, 0, 1, 0, 0, 0, 1 >>
    /\ \A f \in Facings :
          /\ FlipRotationY(Rotations(f)) = RowsTwoThreeNegated(Rotations(f))
          /\ FlipRotationY(FlipRotationY(Rotations(f))) = Rotations(f)
    /\ \A k \in 1..Len(ldraw.lines) :
          Orthogonal(ldraw.lines[k].rotation) /\ Determinant(ldraw.lines[k].rotation) = 1

\* a conversion at scale 1 that wrote the flipped east matrix and the west matrix
C15_Witness ==
    /\ ldraw.status = "ok" /\ ldraw.scale = 1
    /\ \E k \in 1..Len(ldraw.lines) :
          ldraw.lines[k].rotation = << 0, 0, -1, 0, -1, 0, -1, 0, 0 >>
    /\ \E k \in 1..Len(ldraw.lines) :
          ldraw.lines[k].rotation = << 0, 0, 1, 0, 1, 0, -1, 0, 0 >>

----------------------------------------------------------------------------
\* Scenario A: the grid of the single voxel minecraft:stone converted at scale 1
\* with optimize off
ScenarioA ==
    /\ Identity /\ ldraw.scale = 1
    /\ schematic.width = 1 /\ schematic.height = 1 /\ schematic.length = 1
    /\ schematic.has_block_names /\ schematic.block_names = << StoneName >>

(* C16: Scenario A yields exactly one record: colour 71, the unit part 3005, *)
(* the identity rotation, and the position (-10, 0, -10), which is          *)
(* ((0 - 1/2) * 20, 0, (0 - 1/2) * 20).                                     *)
C16_ScenarioAHalfStudOff ==
    ScenarioA =>
        ldraw.lines = << [color |-> 71, x |-> -10, y |-> 0, z |-> -10,
                          rotation |-> << 1, 0, 0, 0, 1, 0, 0, 0, 1 >>, part |-> "3005"] >>

\* Scenario A converted: one record
C16_Witness == ScenarioA /\ Len(ldraw.lines) = 1 /\ ldraw.lines[1].part = "3005"

\* C16 as stated: the one record of Scenario A is at the origin (0, 0, 0)
C16_ScenarioAAtOrigin ==
    ScenarioA =>
        ldraw.lines = << [color |-> 71, x |-> 0, y |-> 0, z |-> 0,
                          rotation |-> << 1, 0, 0, 0, 1, 0, 0, 0, 1 >>, part |-> "3005"] >>

----------------------------------------------------------------------------
\* the catalog lengths and the 1xn part of each
CatalogLengths == { 1, 2, 3, 4, 6, 8 }

PartOfLength(n) ==
    CASE n = 1 -> "3005" [] n = 2 -> "3004" [] n = 3 -> "3622"
      [] n = 4 -> "3010" [] n = 6 -> "3009" [] n = 8 -> "3008"

\* the grid is one row along X of identical voxels of the given solid name
RowOf(s, name) ==
    /\ s.has_block_names /\ s.height = 1 /\ s.length = 1 /\ s.width >= 1
    /\ Len(s.block_names) = s.width
    /\ \A k \in 1..s.width : s.block_names[k] = name

\* the sum of the X positions of the first k lines
RECURSIVE SumX(_, _)
SumX(lines, k) == IF k = 0 THEN 0 ELSE lines[k].x + SumX(lines, k - 1)

\* the lines the identity strategy gives the grid at scale 1
IdentityLines == ConvertStandard(schematic, 1).lines

(* C17: a single row along X of n identical solid voxels, n one of the      *)
(* catalog lengths 1, 2, 3, 4, 6, 8, converted with optimize on at scale 1  *)
(* yields exactly one record: the 1xn part (3010 for four oak_planks, of    *)
(* colour 70), the identity rotation, and the position that is the mean of  *)
(* the positions the identity strategy gives the n voxels.                  *)
C17_RowMergesToOnePart ==
    \A name \in { StoneName, OakPlanksName } :
        ( /\ Greedy /\ ldraw.scale = 1
          /\ RowOf(schematic, name)
          /\ schematic.width \in CatalogLengths ) =>
            /\ Len(ldraw.lines) = 1
            /\ ldraw.lines[1].part = PartOfLength(schematic.width)
            /\ ldraw.lines[1].color = (IF name = StoneName THEN 71 ELSE 70)
            /\ ldraw.lines[1].rotation = << 1, 0, 0, 0, 1, 0, 0, 0, 1 >>
            /\ Len(IdentityLines) = schematic.width
            /\ schematic.width * ldraw.lines[1].x = SumX(IdentityLines, schematic.width)
            /\ \A k \in 1..schematic.width :
                  /\ ldraw.lines[1].y = IdentityLines[k].y
                  /\ ldraw.lines[1].z = IdentityLines[k].z

\* Scenario B converted: four oak_planks in a row, one record with part 3010
C17_Witness ==
    /\ Greedy /\ ldraw.scale = 1
    /\ RowOf(schematic, OakPlanksName) /\ schematic.width = 4
    /\ Len(ldraw.lines) = 1
    /\ ldraw.lines[1].part = "3010" /\ ldraw.lines[1].color = 70

----------------------------------------------------------------------------
\* Scenario D: the grid of the single voxel
\* minecraft:oak_stairs[facing=east,half=top] converted at scale 2
ScenarioD ==
    /\ ldraw.status = "ok" /\ ldraw.scale = 2
    /\ schematic.width = 1 /\ schematic.height = 1 /\ schematic.length = 1
    /\ schematic.has_block_names /\ schematic.block_names = << OakStairsEastTop >>

(* C18: Scenario D yields exactly two records, and the rotation written in  *)
(* both is the east matrix with its rows 2 and 3 negated.                   *)
C18_Scale2StairRotation ==
    ScenarioD =>
        /\ Len(ldraw.lines) = 2
        /\ \A k \in 1..Len(ldraw.lines) :
              ldraw.lines[k].rotation = << 0, 0, -1, 0, -1, 0, -1, 0, 0 >>

\* what Scenario D does yield: two records, brick over plate, 24 apart, both
\* with the identity rotation
C18_Scale2StairIdentity ==
    ScenarioD =>
        /\ Len(ldraw.lines) = 2
        /\ ldraw.lines[1].part = "3003" /\ ldraw.lines[2].part = "3022"
        /\ ldraw.lines[2].y = ldraw.lines[1].y + 24
        /\ \A k \in 1..2 : ldraw.lines[k].rotation = << 1, 0, 0, 0, 1, 0, 0, 0, 1 >>

----------------------------------------------------------------------------
\* the number of records the regions before region k emitted
RECURSIVE RecordsBefore(_)
RecordsBefore(k) == IF k <= 1 THEN 0 ELSE ldraw.regions[k - 1].n + RecordsBefore(k - 1)

\* the i-th record of region k
RecordOf(k, i) == ldraw.lines[RecordsBefore(k) + i]

\* the top of the cell of region k at scale 2
CellTop(k) == (0 - ldraw.regions[k].y) * 48

\* the stairs with half=top and the slabs with type=top among the names
TopStairNames == { OakStairsEastTop, OakStairsSouthTop }
TopSlabNames  == { SlabTopName }

\* two records stacked 24 apart with the same part and horizontal position
SolidPair(k) ==
    /\ ldraw.regions[k].n = 2
    /\ RecordOf(k, 2).y = RecordOf(k, 1).y + 24
    /\ RecordOf(k, 2).part = RecordOf(k, 1).part
    /\ RecordOf(k, 2).x = RecordOf(k, 1).x
    /\ RecordOf(k, 2).z = RecordOf(k, 1).z

\* a brick and a plate: the plate over the brick for half=bottom, the brick
\* over the plate for half=top (Y grows downwards)
StairPair(k) ==
    /\ ldraw.regions[k].n = 2
    /\ RecordOf(k, 1).part = "3003" /\ RecordOf(k, 2).part = "3022"
    /\ IF RegionName(k) \in TopStairNames
       THEN RecordOf(k, 1).y = CellTop(k) /\ RecordOf(k, 2).y = CellTop(k) + 24
       ELSE RecordOf(k, 1).y = CellTop(k) + 24 /\ RecordOf(k, 2).y = CellTop(k) + 16

\* one brick of half the height, in the top or the bottom half of the cell
SlabSingle(k) ==
    /\ ldraw.regions[k].n = 1
    /\ RecordOf(k, 1).part = "3003"
    /\ RecordOf(k, 1).y = (IF RegionName(k) \in TopSlabNames THEN CellTop(k)
                                                            ELSE CellTop(k) + 24)

\* one plate whose underside is the floor of the cell
CarpetSingle(k) ==
    /\ ldraw.regions[k].n = 1
    /\ RecordOf(k, 1).part = "3022"
    /\ RecordOf(k, 1).y + 8 = CellTop(k) + 48

(* C19: the records are those of the regions in order; at scale 1 every     *)
(* region emits exactly one record; at scale 2 a solid or merged region     *)
(* emits two records 24 apart with the same part and horizontal position,   *)
(* a stair a brick and a plate in the vertical order its half gives, a slab *)
(* one record in the top or bottom half of the cell by its type, and a      *)
(* carpet one record at the floor of the cell.                              *)
C19_RecordsPerRegion ==
    ldraw.status = "ok" =>
        /\ Len(ldraw.lines) = RecordsBefore(Len(ldraw.regions) + 1)
        /\ \A k \in 1..Len(ldraw.regions) :
              IF ldraw.scale = 1 THEN ldraw.regions[k].n = 1
              ELSE CASE ldraw.regions[k].kind = "stair"  -> StairPair(k)
                     [] ldraw.regions[k].kind = "slab"   -> SlabSingle(k)
                     [] ldraw.regions[k].kind = "carpet" -> CarpetSingle(k)
                     [] OTHER -> SolidPair(k)

\* a conversion at scale 2 of a solid voxel followed by a top slab: three
\* records
C19_Witness ==
    /\ ldraw.status = "ok" /\ ldraw.scale = 2
    /\ Len(ldraw.regions) = 2 /\ Len(ldraw.lines) = 3
    /\ ldraw.regions[1].kind \in { "none", "merged" }
    /\ ldraw.regions[2].kind = "slab" /\ RegionName(2) = SlabTopName

----------------------------------------------------------------------------
\* the keys of the size-to-part table
SizeKeys ==
    { << 1, 1 >>, << 1, 2 >>, << 1, 3 >>, << 1, 4 >>, << 1, 6 >>, << 1, 8 >>,
      << 2, 2 >>, << 2, 3 >>, << 2, 4 >>, << 2, 6 >>, << 2, 8 >> }

(* C20: every region of the greedy strategy lies in one Y layer, the one    *)
(* its records are written at, and inside the grid; at scale 1 its Z        *)
(* extent is 1 or 2, its X extent is one of 1, 2, 3, 4, 6, 8, the pair      *)
(* (z-extent, x-extent) is a key of the size-to-part table, and the         *)
(* fallback to the unit part is never taken; at scale 2 its Z extent is 1   *)
(* and its X extent is one of 1, 2, 3, 4.                                   *)
C20_RegionExtents ==
    Greedy =>
        \A k \in 1..Len(ldraw.regions) :
            /\ Covered(ldraw.regions[k]) # {}
            /\ Covered(ldraw.regions[k]) \subseteq Cells(schematic)
            /\ ldraw.regions[k].kind = "merged" =>
                  RecordOf(k, 1).y = (0 - ldraw.regions[k].y) * 24 * ldraw.scale
            /\ ldraw.regions[k].kind # "fallback"
            /\ IF ldraw.scale = 1
               THEN /\ ldraw.regions[k].z_len \in { 1, 2 }
                    /\ ldraw.regions[k].x_len \in { 1, 2, 3, 4, 6, 8 }
                    /\ << ldraw.regions[k].z_len, ldraw.regions[k].x_len >> \in SizeKeys
               ELSE /\ ldraw.regions[k].z_len = 1
                    /\ ldraw.regions[k].x_len \in { 1, 2, 3, 4 }

\* a greedy conversion at scale 1 of two rows of seven: a 2x6 brick and then
\* two unit bricks, as no brick is 2x1
C20_Witness ==
    /\ Greedy /\ ldraw.scale = 1
    /\ schematic.width = 7 /\ schematic.length = 2
    /\ Len(ldraw.regions) = 3
    /\ ldraw.regions[1].z_len = 2 /\ ldraw.regions[1].x_len = 6
    /\ ldraw.regions[2].z_len = 1 /\ ldraw.regions[2].x_len = 1
    /\ ldraw.regions[3].z_len = 1 /\ ldraw.regions[3].x_len = 1

----------------------------------------------------------------------------
(* C21: when the output path cannot be written, the error reaches the       *)
(* caller: convert_file does not return True for a conversion whose output  *)
(* file was not written.                                                    *)
C21_UnwritableOutputSurfaced ==
    (file.exists /\ ~ file.out_writable) => (ret # "True" /\ ~ saved.written)

----------------------------------------------------------------------------
\* the origin of region j comes before the origin of region k in the scan:
\* layer first, then Z, then X
ScanBefore(j, k) ==
    \/ ldraw.regions[j].y < ldraw.regions[k].y
    \/ /\ ldraw.regions[j].y = ldraw.regions[k].y
       /\ \/ ldraw.regions[j].z < ldraw.regions[k].z
          \/ /\ ldraw.regions[j].z = ldraw.regions[k].z
             /\ ldraw.regions[j].x < ldraw.regions[k].x

(* C22: under both strategies, the records of the body follow the           *)
(* layer-major scan order of the origins of their regions (y, then z, then  *)
(* x), grids with stair, slab and carpet voxels included.                   *)
C22_RecordsInScanOrder ==
    ldraw.status = "ok" =>
        \A j \in 1..Len(ldraw.regions), k \in 1..Len(ldraw.regions) :
            j < k => ScanBefore(j, k)

\* the same for the identity strategy, and for the greedy strategy on grids
\* without a stair, slab or carpet voxel
C22_ScanOrderWithoutSpecialPass ==
    (ldraw.status = "ok"
        /\ (ldraw.optimize =>
               \A k \in 1..Len(ldraw.regions) : ldraw.regions[k].kind = "merged")) =>
        \A j \in 1..Len(ldraw.regions), k \in 1..Len(ldraw.regions) :
            j < k => ScanBefore(j, k)

----------------------------------------------------------------------------
\* the voxels of unknown identity: a name no table holds, or a legacy id the
\* id table does not hold
UnknownVoxels(s) ==
    { c \in Cells(s) :
        IF s.has_block_names THEN NameAt(s, c) \in { UnknownName, UnknownLitName }
        ELSE s.blocks[c[1]][c[2]][c[3]] \in { 36, 254 } }

\* the bricks without a shape: the 1xn and 2xn bricks
SolidBrickParts ==
    { "3005", "3004", "3622", "3010", "3009", "3008",
      "3003", "3002", "3001", "2456", "3007" }

\* every record of region k is a solid brick of the given colour, unrotated
SolidRecords(k, color) ==
    /\ ldraw.regions[k].n >= 1
    /\ \A i \in 1..ldraw.regions[k].n :
          /\ RecordOf(k, i).color = color
          /\ RecordOf(k, i).rotation = << 1, 0, 0, 0, 1, 0, 0, 0, 1 >>
          /\ RecordOf(k, i).part \in SolidBrickParts

(* C23: unknown identities never cause an error. A legacy id the id table   *)
(* does not hold (36, 254) and a name the name table and the skip set do    *)
(* not hold, without stair, slab or carpet in it, each lie in exactly one   *)
(* region, solid, whose records have the default colour 7, the identity     *)
(* rotation and a solid brick part; no conversion raises.                   *)
C23_UnknownIsDefaultSolid ==
    /\ ldraw.status # "raised"
    /\ ldraw.status = "ok" =>
          \A c \in UnknownVoxels(schematic) :
              /\ Cardinality(RegionsOver(c)) = 1
              /\ \A k \in RegionsOver(c) :
                    /\ ldraw.regions[k].kind \in { "none", "merged" }
                    /\ SolidRecords(k, 7)

\* a converted grid of a stone voxel and a voxel of an unknown name with a
\* state: two records, the second of colour 7
C23_Witness ==
    /\ ldraw.status = "ok" /\ ldraw.scale = 1
    /\ schematic.has_block_names
    /\ schematic.block_names = << StoneName, UnknownLitName >>
    /\ Len(ldraw.lines) = 2
    /\ ldraw.lines[1].color = 71 /\ ldraw.lines[2].color = 7

----------------------------------------------------------------------------
\* the cells the regions before region k stand for: the cells visited when
\* region k starts
VisitedBefore(k) == UNION { Covered(ldraw.regions[j]) : j \in 1..(k - 1) }

\* the catalog lengths tried at the scale of the conversion
CatalogOfScale == IF ldraw.scale = 2 THEN { 4, 3, 2, 1 } ELSE { 8, 6, 4, 3, 2, 1 }

\* the colour of a voxel, -1 for air and skipped voxels
ColorAt(c) == ColorGrid(schematic)[c]

\* the voxel is a stair, a slab or a carpet
SpecialAt(c) ==
    schematic.has_block_names /\ ShapeOfName(NameAt(schematic, c)) # "none"

\* the L cells from the origin of region k fit the row, are unvisited and have
\* the colour of the first
RunOfColor(k, L) ==
    /\ ldraw.regions[k].x + L <= schematic.width
    /\ \A dx \in 0..(L - 1) :
          /\ << ldraw.regions[k].y, ldraw.regions[k].z, ldraw.regions[k].x + dx >>
                \notin VisitedBefore(k)
          /\ ColorAt(<< ldraw.regions[k].y, ldraw.regions[k].z, ldraw.regions[k].x + dx >>)
                = ColorAt(<< ldraw.regions[k].y, ldraw.regions[k].z, ldraw.regions[k].x >>)

\* the same, and at scale 2 none of the L cells is a stair, slab or carpet
RunOfColorAndShape(k, L) ==
    /\ RunOfColor(k, L)
    /\ ldraw.scale = 2 =>
          \A dx \in 0..(L - 1) :
              ~ SpecialAt(<< ldraw.regions[k].y, ldraw.regions[k].z, ldraw.regions[k].x + dx >>)

(* C24: for each position that starts a merged region of the greedy         *)
(* strategy, the X extent of the region is the largest length L of the      *)
(* catalog list of the scale such that x + L <= width and the L cells from  *)
(* x are unvisited, have the colour of the first and, at scale 2, are not   *)
(* stair, slab or carpet voxels; the Z widening leaves it unchanged.        *)
C24_LongestRunChosen ==
    Greedy =>
        \A k \in 1..Len(ldraw.regions) :
            ldraw.regions[k].kind = "merged" =>
                /\ ldraw.regions[k].x_len \in CatalogOfScale
                /\ RunOfColorAndShape(k, ldraw.regions[k].x_len)
                /\ \A L \in CatalogOfScale :
                      L > ldraw.regions[k].x_len => ~ RunOfColorAndShape(k, L)

\* a greedy conversion at scale 2 of a solid voxel followed by a slab of its
\* colour: the run stops before the slab
C24_Witness ==
    /\ Greedy /\ ldraw.scale = 2
    /\ schematic.width = 2
    /\ schematic.block_names = << StoneName, SlabBottomName >>
    /\ ldraw.regions[1].kind = "merged" /\ ldraw.regions[1].x_len = 1
    /\ ColorAt(<< 0, 0, 1 >>) = ColorAt(<< 0, 0, 0 >>)

\* C24 as stated: unvisited cells of the colour of the first are all that a
\* length needs, at scale 1 and at scale 2
C24_LongestRunOfColorChosen ==
    Greedy =>
        \A k \in 1..Len(ldraw.regions) :
            ldraw.regions[k].kind = "merged" =>
                /\ ldraw.regions[k].x_len \in CatalogOfScale
                /\ RunOfColor(k, ldraw.regions[k].x_len)
                /\ \A L \in CatalogOfScale :
                      L > ldraw.regions[k].x_len => ~ RunOfColor(k, L)

----------------------------------------------------------------------------
\* row z + 1 exists under region k and each of its cells under the X extent
\* of the region is unvisited and has the colour of the region's first cell
NextRowOfColor(k) ==
    /\ ldraw.regions[k].z + 1 < schematic.length
    /\ \A dx \in 0..(ldraw.regions[k].x_len - 1) :
          /\ << ldraw.regions[k].y, ldraw.regions[k].z + 1, ldraw.regions[k].x + dx >>
                \notin VisitedBefore(k)
          /\ ColorAt(<< ldraw.regions[k].y, ldraw.regions[k].z + 1, ldraw.regions[k].x + dx >>)
                = ColorAt(<< ldraw.regions[k].y, ldraw.regions[k].z, ldraw.regions[k].x >>)

\* no cell of row z + 1 under the region is a stair, a slab or a carpet
NextRowCompatible(k) ==
    \A dx \in 0..(ldraw.regions[k].x_len - 1) :
        ~ SpecialAt(<< ldraw.regions[k].y, ldraw.regions[k].z + 1, ldraw.regions[k].x + dx >>)

(* C25: at scale 1 a merged region of X extent L has Z extent 2 exactly     *)
(* when row z + 1 exists, every cell (y, z+1, x..x+L-1) is unvisited, has   *)
(* the same colour and is neither special nor skipped, and the catalog has  *)
(* an entry for (2, L); otherwise its Z extent is 1.                        *)
C25_ZWideningCompatible ==
    (Greedy /\ ldraw.scale = 1) =>
        \A k \in 1..Len(ldraw.regions) :
            ldraw.regions[k].kind = "merged" =>
                /\ ldraw.regions[k].z_len \in { 1, 2 }
                /\ ldraw.regions[k].z_len = 2 <=>
                      /\ NextRowOfColor(k)
                      /\ NextRowCompatible(k)
                      /\ << 2, ldraw.regions[k].x_len >> \in SizeKeys

\* the widening as it is made: the shape of the cells of row z + 1 is not
\* looked at
C25_ZWideningByColor ==
    (Greedy /\ ldraw.scale = 1) =>
        \A k \in 1..Len(ldraw.regions) :
            ldraw.regions[k].kind = "merged" =>
                /\ ldraw.regions[k].z_len \in { 1, 2 }
                /\ ldraw.regions[k].z_len = 2 <=>
                      /\ NextRowOfColor(k)
                      /\ << 2, ldraw.regions[k].x_len >> \in SizeKeys

----------------------------------------------------------------------------
\* the grid of one layer: layer y of a grid, alone
LayerGrid(s, y) ==
    [s EXCEPT !.height = 1,
              !.blocks = [yy \in { 0 } |-> s.blocks[y]],
              !.block_names =
                  IF s.has_block_names
                  THEN SubSeq(s.block_names, y * s.length * s.width + 1,
                              (y + 1) * s.length * s.width)
                  ELSE <<>>,
              !.data =
                  IF s.has_data
                  THEN SubSeq(s.data, y * s.length * s.width + 1,
                              (y + 1) * s.length * s.width)
                  ELSE <<>>]

\* a region without its layer
Flat(r) == [z |-> r.z, x |-> r.x, z_len |-> r.z_len, x_len |-> r.x_len, kind |-> r.kind]

\* the regions of a list whose origin is in layer y, without their layer
RegionsOfLayer(regions, y) ==
    { Flat(regions[k]) : k \in { j \in 1..Len(regions) : regions[j].y = y } }

\* the positions of the names of layer y in the list of names
LayerPositions(y) ==
    (y * schematic.length * schematic.width + 1)..((y + 1) * schematic.length * schematic.width)

\* the names the voxels of the other layers are replaced with: nothing, a
\* solid and a stair of the solid's colour
OtherLayerNames == { AirName, StoneName, StoneStairsName }

\* the grids of the dimensions of the converted grid that agree with it on
\* layer y: every choice of these names for the voxels of the other layers
AgreeingGrids(y) ==
    { SchemFromNames(schematic.width, schematic.height, schematic.length,
                     [i \in 1..Len(schematic.block_names) |->
                         IF i \in LayerPositions(y) THEN schematic.block_names[i]
                         ELSE other[i]]).value :
        other \in [(1..Len(schematic.block_names)) \ LayerPositions(y) -> OtherLayerNames] }

(* C26: in the greedy strategy the regions whose origin is in layer y       *)
(* depend on the voxels of layer y only: they are the regions the merge     *)
(* gives layer y alone, and every grid that agrees on layer y, whatever its *)
(* other layers, has the same regions in layer y.                           *)
C26_LayersIndependent ==
    (Greedy /\ schematic.height >= 2) =>
        \A y \in 0..(schematic.height - 1) :
            /\ RegionsOfLayer(ldraw.regions, y)
                 = RegionsOfLayer(ConvertOptimized(LayerGrid(schematic, y), ldraw.scale).regions, 0)
            /\ \A g \in AgreeingGrids(y) :
                  RegionsOfLayer(ConvertOptimized(g, ldraw.scale).regions, y)
                    = RegionsOfLayer(ldraw.regions, y)

\* a greedy conversion of two layers that differ: a merged run in the lower
\* layer, a stair in the upper
C26_Witness ==
    /\ Greedy /\ schematic.height = 2 /\ schematic.width = 2
    /\ LayerGrid(schematic, 0) # LayerGrid(schematic, 1)
    /\ \E k \in 1..Len(ldraw.regions) :
          ldraw.regions[k].y = 0 /\ ldraw.regions[k].x_len = 2
    /\ \E k \in 1..Len(ldraw.regions) :
          ldraw.regions[k].y = 1 /\ ldraw.regions[k].kind = "stair"

----------------------------------------------------------------------------
\* the grid of the last conversion is a legacy grid
LegacyGrid == schematic.format = "schematic" /\ ~ schematic.has_block_names

\* the id of a voxel of a legacy grid
IdAt(c) == schematic.blocks[c[1]][c[2]][c[3]]

\* the colour the id table gives the legacy ids of the inputs: stone and the
\* stone slab 71, planks and the oak stairs 70, the ids it lacks 7
ColorOfId(id) ==
    CASE id \in { 1, 44 } -> 71
      [] id \in { 5, 53 } -> 70
      [] OTHER -> 7

\* the records of region k are at the height of its layer, without an offset:
\* one at scale 1, two stacked 24 apart at scale 2
AtLayerHeight(k) ==
    IF ldraw.scale = 1
    THEN ldraw.regions[k].n = 1 /\ RecordOf(k, 1).y = (0 - ldraw.regions[k].y) * 24
    ELSE /\ ldraw.regions[k].n = 2
         /\ RecordOf(k, 1).y = CellTop(k) /\ RecordOf(k, 2).y = CellTop(k) + 24

(* C27: a legacy grid carries no special shape. Under both strategies and   *)
(* scales every non-air voxel lies in exactly one region, every region is   *)
(* solid, and its records have the colour the id table gives the id (the    *)
(* slab 44 and the stairs 53 included), the identity rotation, a brick part *)
(* and no vertical offset; the greedy strategy at scale 1 merges a stair or *)
(* slab id with a neighbour of its colour into one brick.                   *)
C27_LegacyAlwaysSolid ==
    (LegacyGrid /\ ldraw.status = "ok") =>
        /\ \A c \in Cells(schematic) :
              Cardinality(RegionsOver(c)) = (IF IdAt(c) = 0 THEN 0 ELSE 1)
        /\ \A k \in 1..Len(ldraw.regions) :
              /\ ldraw.regions[k].kind \in { "none", "merged" }
              /\ SolidRecords(k, ColorOfId(IdAt(<< ldraw.regions[k].y, ldraw.regions[k].z,
                                                   ldraw.regions[k].x >>)))
              /\ AtLayerHeight(k)
        /\ ( /\ ldraw.optimize /\ ldraw.scale = 1 /\ schematic.width = 2
             /\ { IdAt(<< 0, 0, 0 >>), IdAt(<< 0, 0, 1 >>) } \in { { 1, 44 }, { 5, 53 }, { 44 }, { 53 } } )
              => Len(ldraw.lines) = 1

\* a greedy conversion at scale 1 of the legacy row oak stairs (53), planks
\* (5): one 1x2 brick of colour 70
C27_Witness ==
    /\ LegacyGrid /\ Greedy /\ ldraw.scale = 1
    /\ schematic.width = 2
    /\ IdAt(<< 0, 0, 0 >>) = 53 /\ IdAt(<< 0, 0, 1 >>) = 5
    /\ Len(ldraw.lines) = 1
    /\ ldraw.lines[1].part = "3004" /\ ldraw.lines[1].color = 70

----------------------------------------------------------------------------
(* C28: no record carries the sentinel colour -1. The id table and the dye  *)
(* table hold no negative colour, and for every grid, strategy and scale    *)
(* the colour of every record is a non-negative code of the tables (71 and  *)
(* 70 for the ids and names of the inputs) or the default 7.                *)
C28_NoSentinelColor ==
    /\ \A id \in 0..255 : BlockColors(id) >= 0
    /\ \A d \in 0..15 : WoolColorMappings[d] >= 0
    /\ \A k \in 1..Len(ldraw.lines) :
          /\ ldraw.lines[k].color >= 0
          /\ ldraw.lines[k].color \in { 7, 70, 71 }

\* an identity conversion of the legacy row air, 254: one record, of colour 7
C28_Witness ==
    /\ LegacyGrid /\ Identity
    /\ schematic.width = 2
    /\ IdAt(<< 0, 0, 0 >>) = 0 /\ IdAt(<< 0, 0, 1 >>) = 254
    /\ Len(ldraw.lines) = 1 /\ ldraw.lines[1].color = 7

----------------------------------------------------------------------------
----------------------------------------------------------------------------
\* C30: greedy merging is not symmetric in X and Z.  A region of Z extent 2
\* has an X extent of at least 2; and for a grid of width 1 the greedy
\* strategy at scale 1 merges nothing: every region is one voxel, and the
\* number of records is the number the identity strategy writes for the
\* same grid, one for each voxel not passed over.
C30_NoMergeAlongZAlone ==
    Greedy =>
        /\ \A k \in 1..Len(ldraw.regions) :
              ldraw.regions[k].z_len = 2 => ldraw.regions[k].x_len >= 2
        /\ (ldraw.scale = 1 /\ schematic.width = 1) =>
              /\ \A k \in 1..Len(ldraw.regions) :
                    ldraw.regions[k].z_len = 1 /\ ldraw.regions[k].x_len = 1
              /\ Len(ldraw.lines) = Len(ConvertStandard(schematic, 1).lines)
              /\ Len(ldraw.lines) =
                    Cardinality({ c \in Cells(schematic) :
                                    ~ CellColor(schematic, c[1], c[2], c[3]).skip })

\* a greedy conversion at scale 1 of a row of three stone voxels along Z:
\* three records
C30_Witness ==
    /\ Greedy /\ ldraw.scale = 1
    /\ schematic.width = 1 /\ schematic.height = 1 /\ schematic.length = 3
    /\ \A c \in Cells(schematic) :
          CellColor(schematic, c[1], c[2], c[3]).block_name = StoneName
    /\ Len(ldraw.lines) = 3

====
